---- MODULE Spec2Model ----
(***************************************************************************)
(* Service discovery core of flare-server-core.                            *)
(*                                                                         *)
(*  - the discovery reconciler (discovery/discover.rs): ServiceDiscover,   *)
(*    its three reconcile passes (from_backend, the immediate task and the *)
(*    periodic task of start_refresh_task), ServiceDiscoverUpdater and the *)
(*    bounded event channel read by the Stream implementation;             *)
(*  - the registry loop (discovery/factory.rs): ServiceRegistry::new with  *)
(*    its heartbeat task, shutdown() and Drop.                             *)
(*                                                                         *)
(* The two components have their own specifications; each leaves the other *)
(* component's variables untouched.                                        *)
(***************************************************************************)
EXTENDS Naturals, Sequences, FiniteSets

(***************************************************************************)
(* Bounds of the model.                                                    *)
(***************************************************************************)
\* Backend changes (register, unregister, dial outage) the environment makes.
MaxEnv == 3
\* Backend changes the environment makes in the fair-scheduling scenario.
MaxEnvFair == 2
\* Backend changes of the single-instance scenario that fills the channel.
MaxEnvChan == 18
\* shutdown() calls made on one registry.
MaxShutdownCalls == 2

(***************************************************************************)
(* Program constants.                                                      *)
(***************************************************************************)
\* new_internal(16, ...): capacity of the mpsc event channel.
Buffer == 16
\* mpsc::channel(1): capacity of the registry's shutdown channel.
ShutdownBuffer == 1

(***************************************************************************)
(* Values.                                                                 *)
(***************************************************************************)
\* instance_id values the backend may hold for the watched service type.
Ids == {"n1", "n2"}
\* ServiceInstance payloads (all fields but instance_id); equality is
\* structural, so two payloads are the same instance content iff equal.
Contents == {"c1", "c2"}
\* Socket addresses.
Addrs == {"a1", "a2"}
NoInst == "none"
NoChan == "nochan"
NoId == "noid"

\* ServiceInstance.address of a payload.
AddrOf(c) == IF c = "c1" THEN "a1" ELSE "a2"

\* The reconcile passes: from_backend's own pass, the immediate task and the
\* periodic task spawned by start_refresh_task.
Tasks == {"init", "imm", "per"}

InstMap == [Ids -> Contents \cup {NoInst}]
EmptyMap == [i \in Ids |-> NoInst]
Keys(m) == {i \in Ids : m[i] # NoInst}

\* tower::discover::Change<String, ChannelService>; a ChannelService is
\* identified by the address its Channel is connected to.
Insert(i, ch) == [op |-> "Insert", id |-> i, ch |-> ch]
Remove(i) == [op |-> "Remove", id |-> i, ch |-> NoChan]

VARIABLES
    \* ---- environment of the reconciler
    backendStore,   \* what backend.discover returns: instance_id -> payload
    dialable,       \* addresses Endpoint::connect succeeds on
    envLeft,        \* backend changes the environment may still make
    \* ---- ServiceDiscover / ServiceDiscoverUpdater
    instances,      \* ServiceDiscover.instances (last-known map)
    channel_cache,  \* channel_cache: instance_id -> ChannelService
    queue,          \* contents of the mpsc channel (tx -> rx)
    rxAlive,        \* the ServiceDiscover (Receiver) has not been dropped
    lock,           \* holder of instances.write(), or "free"
    pc,             \* position of each pass
    snap,           \* new_instances / new_map of each pass
    todo,           \* ids a pass's current loop has not visited yet
    cur,            \* id a pass is working on
    pend,           \* the Change a tx.send(..).await is waiting to place
    \* ---- history of the reconciler
    emitted,        \* Changes handed to tx.send, in call order
    delivered,      \* Changes poll_next has yielded, in order
    passLen,        \* Len(emitted) when the running pass began its loop
    failed,         \* ids whose dial failed in the running pass
    handled,        \* the periodic pass's handling of a changed instance
    scanned,        \* ids the periodic pass's deletion scan selected
    \* ---- ServiceRegistry
    regInstance,    \* ServiceRegistry.instance
    hbInstance,     \* instance_clone owned by the heartbeat task
    shutdown_tx,    \* ServiceRegistry.shutdown_tx: "some" | "none"
    txAlive,        \* a Sender of the shutdown channel still exists
    sdChan,         \* messages in the shutdown channel
    hbPc,           \* position of the heartbeat task
    shPc,           \* position of the shutdown() call in progress
    shResult,       \* what the shutdown() calls returned, in call order
    shCalls,        \* shutdown() calls begun
    dropPc,         \* registry dropped? position of the task Drop spawned
    regStore,       \* backend record of the registry's instance
    \* ---- history of the registry
    unregCalls,     \* backend.unregister calls made
    stopSent,       \* a stop message was ever placed on the channel
    hbLast,         \* result of the last backend.heartbeat call
    \* ---- the discovery backends (backend/etcd.rs, consul.rs, dns.rs, mesh.rs)
    backendKind,    \* DiscoveryConfig.backend: "etcd", "consul", "dns", "mesh"
    kv,             \* lease-KV store: key -> stored ServiceInstance
    agent,          \* agent-HTTP registry: service ID -> agent service entry
    addresses,      \* backend_config["addresses"] read by the DNS and mesh backends
    opsLeft,        \* register / unregister calls that may still be made
    lastOp,         \* the last backend call: operation, argument, result,
                    \* and the records it replaced or deleted
    \* ---- liveness of a registration over time (seconds)
    envHeartbeat,   \* SERVICE_HEARTBEAT_INTERVAL
    envEtcdTtl,     \* ETCD_TTL_SECONDS
    envConsulTtl,   \* CONSUL_TTL_SECONDS
    envPassingOnly, \* CONSUL_PASSING_ONLY = "true"
    leaseKind,      \* backend kind handed to register_and_discover
    heartbeat_interval, \* interval given to ServiceRegistry::new
    ttl_seconds,    \* TTL of the chosen backend's registration
    sinceTick,      \* seconds since the heartbeat task's timer last fired
    sinceRefresh,   \* seconds since the registration's liveness was refreshed
    present,        \* the backend holds the instance's record
    loopState,      \* heartbeat task: "running" | "stopped"
    beatsOk,        \* every backend.heartbeat call so far returned Ok
    \* ---- ServiceClient (tower::balance::p2c::Balance over ServiceDiscover)
    changes,        \* Changes in the ServiceDiscover's channel, not yet polled
    changesLeft,    \* Changes the updater may still send
    ready,          \* Balance.services: the ready services, in index order
    ready_index,    \* Balance.ready_index: 0 (None) or a position of ready
    callOp,         \* the ServiceClient method in progress or last called
    callPc,         \* position of that call
    callResult,     \* what the call returned
    seen,           \* the balancer has ever taken a Change from the stream
    \* ---- DiscoveryFactory::register_and_discover
    facKind,        \* backend_type
    facInstance,    \* instance
    facPc,          \* position of the call
    facResult,      \* what the call returned: "none" | "Ok" | "Err"
    facCalls,       \* calls made so far, in order
    facSpawned,     \* tasks spawned so far
    \* ---- the log
    warned,         \* "Failed to refresh service instances" has been logged
    \* ---- one pass over a discover result that may repeat an instance_id
    dupPass,        \* the result, the dial state and what the pass left
    \* ---- from_backend's own pass over a result of any length
    manyPass,       \* how many instances were found, visited and sent
    \* ---- the EtcdBackend's Arc<Mutex<Client>>
    etcdClient,     \* who holds the mutex; the watch task; the caller of an op
    \* ---- ServiceRuntime
    rt              \* the registered tasks and the position of run

recVars == <<backendStore, dialable, envLeft, instances, channel_cache, queue,
             rxAlive, lock, pc, snap, todo, cur, pend, emitted, delivered,
             passLen, failed, handled, scanned>>
regVars == <<regInstance, hbInstance, shutdown_tx, txAlive, sdChan, hbPc, shPc,
             shResult, shCalls, dropPc, regStore, unregCalls, stopSent,
             hbLast>>
bkVars == <<backendKind, kv, agent, addresses, opsLeft, lastOp>>
ttlVars == <<envHeartbeat, envEtcdTtl, envConsulTtl, envPassingOnly, leaseKind,
             heartbeat_interval, ttl_seconds, sinceTick, sinceRefresh, present,
             loopState, beatsOk>>
\* The variables of the backends and of the registration's liveness.
cliVars == <<changes, changesLeft, ready, ready_index, callOp, callPc,
             callResult, seen>>
facVars == <<facKind, facInstance, facPc, facResult, facCalls, facSpawned>>
logVars == <<warned>>
\* The variables of the client, of the factory call and of the log.
dupVars == <<dupPass>>
\* The variables of the components that are followed on their own.
manyVars == <<manyPass>>
watchVars == <<etcdClient>>
rtVars == <<rt>>
lateVars == <<dupVars, manyVars, watchVars, rtVars>>
auxVars == <<cliVars, facVars, logVars, lateVars>>
extVars == <<bkVars, ttlVars, auxVars>>
vars == <<recVars, regVars, extVars>>

\* An environment variable: unset, set to text that is not a number, or set
\* to the decimal text of n.
EnvUnset == [kind |-> "unset", n |-> 0]
EnvText == [kind |-> "text", n |-> 0]
EnvNum(n) == [kind |-> "num", n |-> n]

\* A store with no record.
EmptyStore == [k \in {} |-> k]

\* No backend call has been made.
NoOp == [op |-> "none", arg |-> <<>>, ret |-> "none", out |-> <<>>,
         was |-> {}]

\* No backend has been created.
BkNone ==
    /\ backendKind = "none"
    /\ kv = EmptyStore
    /\ agent = EmptyStore
    /\ addresses = <<>>
    /\ opsLeft = 0
    /\ lastOp = NoOp

\* No ServiceClient has been built.
CliNone ==
    /\ changes = <<>>
    /\ changesLeft = 0
    /\ ready = <<>>
    /\ ready_index = 0
    /\ callOp = "none"
    /\ callPc = "none"
    /\ callResult = <<>>
    /\ seen = FALSE

\* register_and_discover is not being called.
FacNone ==
    /\ facKind = "none"
    /\ facInstance = "none"
    /\ facPc = "none"
    /\ facResult = "none"
    /\ facCalls = <<>>
    /\ facSpawned = {}

\* The log is not being followed.
LogNone == warned = FALSE

\* No pass over a result with repeated ids is being followed.
DupNone == dupPass = <<>>

\* No from_backend call over a long result is being followed.
ManyNone == manyPass = <<>>

\* No EtcdBackend client is being followed.
WatchNone == etcdClient = <<>>

\* No ServiceRuntime has been built.
RtNone == rt = <<>>

LateNone == DupNone /\ ManyNone /\ WatchNone /\ RtNone

\* Neither a client nor a factory call is being followed.
AuxNone == CliNone /\ FacNone /\ LogNone /\ LateNone

\* No registration is being followed over time.
TtlNone ==
    /\ envHeartbeat = EnvUnset
    /\ envEtcdTtl = EnvUnset
    /\ envConsulTtl = EnvUnset
    /\ envPassingOnly = FALSE
    /\ leaseKind = "none"
    /\ heartbeat_interval = 0
    /\ ttl_seconds = 0
    /\ sinceTick = 0
    /\ sinceRefresh = 0
    /\ present = FALSE
    /\ loopState = "stopped"
    /\ beatsOk = TRUE

(***************************************************************************)
(* ServiceDiscoverUpdater and the event channel.                           *)
(***************************************************************************)
\* create_channel_service: a cached ChannelService of the id is returned as
\* is; otherwise Endpoint::connect dials the instance's address and, on
\* success, the new ChannelService is cached.
CreateChannelService(cache, i, c, dial) ==
    IF cache[i] # NoChan
      THEN [ok |-> TRUE, ch |-> cache[i], cache |-> cache]
      ELSE IF AddrOf(c) \in dial
        THEN [ok |-> TRUE, ch |-> AddrOf(c),
              cache |-> [cache EXCEPT ![i] = AddrOf(c)]]
        ELSE [ok |-> FALSE, ch |-> NoChan, cache |-> cache]

\* Faulty variant: the result of create_channel_service is not inspected.
DialOkIgnored(res) == TRUE

\* `if let Ok(service) = updater.create_channel_service(..).await`
DialOk(res) == res.ok

\* insert: the cache write that precedes tx.send(Change::Insert(..)).
UpdaterInsertCache(cache, i, ch) == [cache EXCEPT ![i] = ch]

\* Faulty variant: remove leaves the cached ChannelService in place.
UpdaterRemoveCacheKept(cache, i) == cache

\* remove: the cache write that precedes tx.send(Change::Remove(..)).
UpdaterRemoveCache(cache, i) == [cache EXCEPT ![i] = NoChan]

\* Faulty variant: try_send semantics, a full channel discards the change.
SentOrDropped(q, ev, alive) ==
    IF ~alive THEN {q}
    ELSE IF Len(q) < Buffer THEN {Append(q, ev)}
    ELSE {q}

\* tx.send(change).await on the bounded channel: the queues the send may
\* leave.  With the receiver gone the send returns Err at once (the result is
\* discarded by `let _ =`); with the channel full the send waits (no
\* outcome yet); otherwise the change is appended.
Sent(q, ev, alive) ==
    IF ~alive THEN {q}
    ELSE IF Len(q) < Buffer THEN {Append(q, ev)}
    ELSE {}

\* updater.insert(id, service) up to the point where the send is issued.
BeginInsert(t, i, res, next) ==
    /\ channel_cache' = UpdaterInsertCache(res.cache, i, res.ch)
    /\ pend' = <<Insert(i, res.ch)>>
    /\ emitted' = Append(emitted, Insert(i, res.ch))
    /\ cur' = [cur EXCEPT ![t] = i]
    /\ pc' = [pc EXCEPT ![t] = next]

\* updater.remove(id) up to the point where the send is issued.
BeginRemove(t, i, next) ==
    /\ channel_cache' = UpdaterRemoveCache(channel_cache, i)
    /\ pend' = <<Remove(i)>>
    /\ emitted' = Append(emitted, Remove(i))
    /\ cur' = [cur EXCEPT ![t] = i]
    /\ pc' = [pc EXCEPT ![t] = next]

\* The pending tx.send completes.
CompleteSend ==
    /\ pend # <<>>
    /\ queue' \in Sent(queue, pend[1], rxAlive)
    /\ pend' = <<>>

(***************************************************************************)
(* ServiceDiscover::from_backend: the first discover pass, run by the      *)
(* caller before the handles exist.                                        *)
(***************************************************************************)
\* backend.discover(..) of from_backend: Ok(new_instances) or Err.
InitDiscover ==
    /\ pc["init"] = "discover"
    /\ \E ok \in BOOLEAN :
         IF ok
           THEN /\ snap' = [snap EXCEPT !["init"] = backendStore]
                /\ todo' = [todo EXCEPT !["init"] = Keys(backendStore)]
                /\ pc' = [pc EXCEPT !["init"] = "loop"]
           ELSE /\ pc' = [pc EXCEPT !["init"] = "spawn"]
                /\ UNCHANGED <<snap, todo>>
    /\ passLen' = Len(emitted)
    /\ UNCHANGED <<backendStore, dialable, envLeft, instances, channel_cache,
                   queue, rxAlive, lock, cur, pend, emitted, delivered, failed,
                   handled, scanned, regVars, extVars>>

\* One iteration of `for new_inst in new_instances` up to the send.
InitVisit ==
    /\ pc["init"] = "loop"
    /\ \E i \in todo["init"] :
         LET res == CreateChannelService(channel_cache, i, snap["init"][i],
                                         dialable)
         IN /\ todo' = [todo EXCEPT !["init"] = @ \ {i}]
            /\ IF DialOk(res)
                 THEN /\ BeginInsert("init", i, res, "send")
                      /\ UNCHANGED failed
                 ELSE /\ failed' = failed \cup {i}
                      /\ UNCHANGED <<channel_cache, pend, emitted, cur, pc>>
    /\ UNCHANGED <<backendStore, dialable, envLeft, instances, queue, rxAlive,
                   lock, snap, delivered, passLen, handled, scanned, regVars, extVars>>

\* The send of updater.insert completes; current.insert(id, new_inst).
InitSend ==
    /\ pc["init"] = "send"
    /\ CompleteSend
    /\ instances' = [instances EXCEPT ![cur["init"]] = snap["init"][cur["init"]]]
    /\ cur' = [cur EXCEPT !["init"] = NoId]
    /\ pc' = [pc EXCEPT !["init"] = "loop"]
    /\ UNCHANGED <<backendStore, dialable, envLeft, channel_cache, rxAlive,
                   lock, snap, todo, emitted, delivered, passLen, failed,
                   handled, scanned, regVars, extVars>>

\* The loop is over (or discover failed): start_refresh_task spawns the
\* immediate and the periodic task, and from_backend returns the handles.
InitSpawn ==
    /\ \/ pc["init"] = "spawn"
       \/ pc["init"] = "loop" /\ todo["init"] = {}
    /\ pc' = [pc EXCEPT !["init"] = "done", !["imm"] = "discover",
                        !["per"] = "tick"]
    /\ snap' = [snap EXCEPT !["init"] = EmptyMap]
    /\ failed' = {}
    /\ UNCHANGED <<backendStore, dialable, envLeft, instances, channel_cache,
                   queue, rxAlive, lock, todo, cur, pend, emitted, delivered,
                   passLen, handled, scanned, regVars, extVars>>

(***************************************************************************)
(* start_refresh_task: the immediate task.                                 *)
(***************************************************************************)
\* backend_clone.discover(..): Ok(new_instances), or Err and the task ends.
ImmDiscover ==
    /\ pc["imm"] = "discover"
    /\ \E ok \in BOOLEAN :
         IF ok
           THEN /\ snap' = [snap EXCEPT !["imm"] = backendStore]
                /\ pc' = [pc EXCEPT !["imm"] = "lock"]
           ELSE /\ pc' = [pc EXCEPT !["imm"] = "done"]
                /\ UNCHANGED snap
    /\ UNCHANGED <<backendStore, dialable, envLeft, instances, channel_cache,
                   queue, rxAlive, lock, todo, cur, pend, emitted, delivered,
                   passLen, failed, handled, scanned, regVars, extVars>>

\* instances_immediate.write().await; new_map is built.
ImmLock ==
    /\ pc["imm"] = "lock"
    /\ lock = "free"
    /\ lock' = "imm"
    /\ todo' = [todo EXCEPT !["imm"] = Keys(snap["imm"])]
    /\ pc' = [pc EXCEPT !["imm"] = "loop"]
    /\ passLen' = Len(emitted)
    /\ failed' = {}
    /\ UNCHANGED <<backendStore, dialable, envLeft, instances, channel_cache,
                   queue, rxAlive, snap, cur, pend, emitted, delivered,
                   handled, scanned, regVars, extVars>>

\* One iteration of `for (id, new_inst) in &new_map`.
ImmVisit ==
    /\ pc["imm"] = "loop"
    /\ \E i \in todo["imm"] :
         LET res == CreateChannelService(channel_cache, i, snap["imm"][i],
                                         dialable)
         IN /\ todo' = [todo EXCEPT !["imm"] = @ \ {i}]
            /\ IF instances[i] # NoInst
                 THEN UNCHANGED <<instances, channel_cache, pend, emitted, cur,
                                  pc, failed>>
                 ELSE IF DialOk(res)
                   THEN /\ BeginInsert("imm", i, res, "send")
                        /\ UNCHANGED <<instances, failed>>
                   ELSE /\ instances' = [instances EXCEPT ![i] = snap["imm"][i]]
                        /\ failed' = failed \cup {i}
                        /\ UNCHANGED <<channel_cache, pend, emitted, cur, pc>>
    /\ UNCHANGED <<backendStore, dialable, envLeft, queue, rxAlive, lock, snap,
                   delivered, passLen, handled, scanned, regVars, extVars>>

\* The send of updater.insert completes; current.insert(id, new_inst).
ImmSend ==
    /\ pc["imm"] = "send"
    /\ CompleteSend
    /\ instances' = [instances EXCEPT ![cur["imm"]] = snap["imm"][cur["imm"]]]
    /\ cur' = [cur EXCEPT !["imm"] = NoId]
    /\ pc' = [pc EXCEPT !["imm"] = "loop"]
    /\ UNCHANGED <<backendStore, dialable, envLeft, channel_cache, rxAlive,
                   lock, snap, todo, emitted, delivered, passLen, failed,
                   handled, scanned, regVars, extVars>>

\* The loop is over: the write guard is dropped and the task ends.
ImmDone ==
    /\ pc["imm"] = "loop"
    /\ todo["imm"] = {}
    /\ lock' = "free"
    /\ pc' = [pc EXCEPT !["imm"] = "done"]
    /\ snap' = [snap EXCEPT !["imm"] = EmptyMap]
    /\ failed' = {}
    /\ UNCHANGED <<backendStore, dialable, envLeft, instances, channel_cache,
                   queue, rxAlive, todo, cur, pend, emitted, delivered,
                   passLen, handled, scanned, regVars, extVars>>

(***************************************************************************)
(* start_refresh_task: the periodic task.                                  *)
(***************************************************************************)
Idle == [st |-> "idle", id |-> NoId, from |-> 0, c |-> NoInst, ok |-> FALSE]

\* interval_timer.tick() fires and backend.discover(..) returns Ok.
PerDiscoverOk ==
    /\ pc["per"] = "tick"
    /\ snap' = [snap EXCEPT !["per"] = backendStore]
    /\ pc' = [pc EXCEPT !["per"] = "lock"]
    /\ UNCHANGED <<backendStore, dialable, envLeft, instances, channel_cache,
                   queue, rxAlive, lock, todo, cur, pend, emitted, delivered,
                   passLen, failed, handled, scanned, regVars, extVars>>

\* A refresh that clears the last-known map when discover fails.
PerDiscoverErrClears ==
    /\ pc["per"] = "tick"
    /\ pc' = [pc EXCEPT !["per"] = "tick"]
    /\ instances' = EmptyMap
    /\ UNCHANGED <<backendStore, dialable, envLeft, channel_cache,
                   queue, rxAlive, lock, snap, todo, cur, pend, emitted,
                   delivered, passLen, failed, handled, scanned, regVars,
                   bkVars, ttlVars, cliVars, facVars, lateVars>>

\* interval_timer.tick() fires and backend.discover(..) returns Err: the
\* error is logged and the loop goes back to the next tick.  The log line is
\* no program state: a specification that follows the log sets `warned`
\* with this step, the others leave it alone.
PerDiscoverErr ==
    /\ pc["per"] = "tick"
    /\ pc' = [pc EXCEPT !["per"] = "tick"]
    /\ UNCHANGED <<backendStore, dialable, envLeft, instances, channel_cache,
                   queue, rxAlive, lock, snap, todo, cur, pend, emitted,
                   delivered, passLen, failed, handled, scanned, regVars,
                   bkVars, ttlVars, cliVars, facVars, lateVars>>

\* instances_interval.write().await; new_map is built.
PerLock ==
    /\ pc["per"] = "lock"
    /\ lock = "free"
    /\ lock' = "per"
    /\ todo' = [todo EXCEPT !["per"] = Keys(snap["per"])]
    /\ pc' = [pc EXCEPT !["per"] = "loop"]
    /\ passLen' = Len(emitted)
    /\ failed' = {}
    /\ UNCHANGED <<backendStore, dialable, envLeft, instances, channel_cache,
                   queue, rxAlive, snap, cur, pend, emitted, delivered,
                   handled, scanned, regVars, extVars>>

\* One iteration of `for (id, new_inst) in &new_map`: `match current.get(id)`.
PerVisit ==
    /\ pc["per"] = "loop"
    /\ \E i \in todo["per"] :
         LET new == snap["per"][i]
             res == CreateChannelService(channel_cache, i, new, dialable)
         IN /\ todo' = [todo EXCEPT !["per"] = @ \ {i}]
            /\ IF instances[i] = NoInst
                 THEN \* None: a new instance
                      /\ handled' = Idle
                      /\ IF DialOk(res)
                           THEN /\ BeginInsert("per", i, res, "send_ins")
                                /\ UNCHANGED <<instances, failed>>
                           ELSE /\ instances' = [instances EXCEPT ![i] = new]
                                /\ failed' = failed \cup {i}
                                /\ UNCHANGED <<channel_cache, pend, emitted,
                                               cur, pc>>
                 ELSE IF instances[i] # new
                   THEN \* Some(old_inst) if old_inst != new_inst
                        /\ BeginRemove("per", i, "send_rm")
                        /\ handled' = [st |-> "removing", id |-> i,
                                       from |-> Len(emitted), c |-> new,
                                       ok |-> FALSE]
                        /\ UNCHANGED <<instances, failed>>
                   ELSE \* unchanged
                        /\ handled' = Idle
                        /\ UNCHANGED <<instances, channel_cache, pend, emitted,
                                       cur, pc, failed>>
    /\ UNCHANGED <<backendStore, dialable, envLeft, queue, rxAlive, lock, snap,
                   delivered, passLen, scanned, regVars, extVars>>

\* The send of updater.remove (changed instance) completes.
PerSendRm ==
    /\ pc["per"] = "send_rm"
    /\ CompleteSend
    /\ pc' = [pc EXCEPT !["per"] = "redial"]
    /\ UNCHANGED <<backendStore, dialable, envLeft, instances, channel_cache,
                   rxAlive, lock, snap, todo, cur, emitted, delivered, passLen,
                   failed, handled, scanned, regVars, extVars>>

\* Changed instance: create_channel_service(new_inst), then updater.insert on
\* success; current.insert(id, new_inst) follows in either case.
PerRedial ==
    /\ pc["per"] = "redial"
    /\ LET i == cur["per"]
           new == snap["per"][i]
           res == CreateChannelService(channel_cache, i, new, dialable)
       IN IF DialOk(res)
            THEN /\ BeginInsert("per", i, res, "send_ins")
                 /\ handled' = [handled EXCEPT !.st = "inserting"]
                 /\ UNCHANGED <<instances, failed>>
            ELSE /\ instances' = [instances EXCEPT ![i] = new]
                 /\ failed' = failed \cup {i}
                 /\ handled' = [handled EXCEPT !.st = "done", !.ok = FALSE]
                 /\ cur' = [cur EXCEPT !["per"] = NoId]
                 /\ pc' = [pc EXCEPT !["per"] = "loop"]
                 /\ UNCHANGED <<channel_cache, pend, emitted>>
    /\ UNCHANGED <<backendStore, dialable, envLeft, queue, rxAlive, lock, snap,
                   todo, delivered, passLen, scanned, regVars, extVars>>

\* The send of updater.insert completes; current.insert(id, new_inst).
PerSendIns ==
    /\ pc["per"] = "send_ins"
    /\ CompleteSend
    /\ instances' = [instances EXCEPT ![cur["per"]] = snap["per"][cur["per"]]]
    /\ handled' = IF handled.st = "inserting"
                    THEN [handled EXCEPT !.st = "done", !.ok = TRUE]
                    ELSE handled
    /\ cur' = [cur EXCEPT !["per"] = NoId]
    /\ pc' = [pc EXCEPT !["per"] = "loop"]
    /\ UNCHANGED <<backendStore, dialable, envLeft, channel_cache, rxAlive,
                   lock, snap, todo, emitted, delivered, passLen, failed,
                   scanned, regVars, extVars>>

\* Faulty variant: the test of the deletion scan is inverted.
DeletionScanInverted(current, new_map) == Keys(current) \cap Keys(new_map)

\* `for id in current_ids { if !new_map.contains_key(&id) {..} }`: the ids
\* the deletion scan acts on.
DeletionScan(current, new_map) == Keys(current) \ Keys(new_map)

\* The first loop is over: current_ids is collected for the deletion scan.
PerScan ==
    /\ pc["per"] = "loop"
    /\ todo["per"] = {}
    /\ todo' = [todo EXCEPT !["per"] = DeletionScan(instances, snap["per"])]
    /\ scanned' = DeletionScan(instances, snap["per"])
    /\ handled' = Idle
    /\ pc' = [pc EXCEPT !["per"] = "del"]
    /\ UNCHANGED <<backendStore, dialable, envLeft, instances, channel_cache,
                   queue, rxAlive, lock, snap, cur, pend, emitted, delivered,
                   passLen, failed, regVars, extVars>>

\* Deletion scan, `if !new_map.contains_key(&id)`: updater.remove(id).
PerDelete ==
    /\ pc["per"] = "del"
    /\ \E i \in todo["per"] :
         /\ todo' = [todo EXCEPT !["per"] = @ \ {i}]
         /\ BeginRemove("per", i, "send_del")
    /\ UNCHANGED <<backendStore, dialable, envLeft, instances, queue, rxAlive,
                   lock, snap, delivered, passLen, failed, handled, scanned,
                   regVars, extVars>>

\* The send of updater.remove completes; current.remove(&id).
PerSendDel ==
    /\ pc["per"] = "send_del"
    /\ CompleteSend
    /\ instances' = [instances EXCEPT ![cur["per"]] = NoInst]
    /\ cur' = [cur EXCEPT !["per"] = NoId]
    /\ pc' = [pc EXCEPT !["per"] = "del"]
    /\ UNCHANGED <<backendStore, dialable, envLeft, channel_cache, rxAlive,
                   lock, snap, todo, emitted, delivered, passLen, failed,
                   handled, scanned, regVars, extVars>>

\* The pass is over: the write guard is dropped, back to the next tick.
PerRelease ==
    /\ pc["per"] = "del"
    /\ todo["per"] = {}
    /\ lock' = "free"
    /\ pc' = [pc EXCEPT !["per"] = "tick"]
    /\ snap' = [snap EXCEPT !["per"] = EmptyMap]
    /\ failed' = {}
    /\ scanned' = {}
    /\ UNCHANGED <<backendStore, dialable, envLeft, instances, channel_cache,
                   queue, rxAlive, todo, cur, pend, emitted, delivered,
                   passLen, handled, regVars, extVars>>

(***************************************************************************)
(* The consumer of the stream, and the environment.                        *)
(***************************************************************************)
\* impl Stream for ServiceDiscover: poll_next yields the next Change.
PollNext ==
    /\ pc["init"] = "done"
    /\ rxAlive
    /\ queue # <<>>
    /\ delivered' = Append(delivered, Head(queue))
    /\ queue' = Tail(queue)
    /\ UNCHANGED <<backendStore, dialable, envLeft, instances, channel_cache,
                   rxAlive, lock, pc, snap, todo, cur, pend, emitted, passLen,
                   failed, handled, scanned, regVars, extVars>>

\* The owner drops the ServiceDiscover: the Receiver closes the channel.
DropDiscover ==
    /\ pc["init"] = "done"
    /\ rxAlive
    /\ rxAlive' = FALSE
    /\ queue' = <<>>
    /\ UNCHANGED <<backendStore, dialable, envLeft, instances, channel_cache,
                   lock, pc, snap, todo, cur, pend, emitted, delivered,
                   passLen, failed, handled, scanned, regVars, extVars>>

\* Some service registers instance i with payload c (or re-registers it with
\* a changed payload).
EnvRegister(i, c) ==
    /\ envLeft > 0
    /\ backendStore[i] # c
    /\ backendStore' = [backendStore EXCEPT ![i] = c]
    /\ envLeft' = envLeft - 1
    /\ UNCHANGED <<dialable, instances, channel_cache, queue, rxAlive, lock,
                   pc, snap, todo, cur, pend, emitted, delivered, passLen,
                   failed, handled, scanned, regVars, extVars>>

\* Instance i is unregistered (or its lease expires).
EnvUnregister(i) ==
    /\ envLeft > 0
    /\ backendStore[i] # NoInst
    /\ backendStore' = [backendStore EXCEPT ![i] = NoInst]
    /\ envLeft' = envLeft - 1
    /\ UNCHANGED <<dialable, instances, channel_cache, queue, rxAlive, lock,
                   pc, snap, todo, cur, pend, emitted, delivered, passLen,
                   failed, handled, scanned, regVars, extVars>>

\* Address a starts or stops accepting connections.
EnvDial(a) ==
    /\ envLeft > 0
    /\ dialable' = IF a \in dialable THEN dialable \ {a} ELSE dialable \cup {a}
    /\ envLeft' = envLeft - 1
    /\ UNCHANGED <<backendStore, instances, channel_cache, queue, rxAlive,
                   lock, pc, snap, todo, cur, pend, emitted, delivered,
                   passLen, failed, handled, scanned, regVars, extVars>>

(***************************************************************************)
(* Initial states.                                                         *)
(***************************************************************************)
\* new_internal: empty cache, empty last-known map, empty channel;
\* from_backend is about to run its discover.
RecInit ==
    /\ instances = EmptyMap
    /\ channel_cache = [i \in Ids |-> NoChan]
    /\ queue = <<>>
    /\ rxAlive = TRUE
    /\ lock = "free"
    /\ pc = [t \in Tasks |-> IF t = "init" THEN "discover" ELSE "unborn"]
    /\ snap = [t \in Tasks |-> EmptyMap]
    /\ todo = [t \in Tasks |-> {}]
    /\ cur = [t \in Tasks |-> NoId]
    /\ pend = <<>>
    /\ emitted = <<>>
    /\ delivered = <<>>
    /\ passLen = 0
    /\ failed = {}
    /\ handled = Idle
    /\ scanned = {}

\* No registry has been built.
RegNone ==
    /\ regInstance = NoInst
    /\ hbInstance = NoInst
    /\ shutdown_tx = "none"
    /\ txAlive = FALSE
    /\ sdChan = 0
    /\ hbPc = "unborn"
    /\ shPc = "idle"
    /\ shResult = <<>>
    /\ shCalls = 0
    /\ dropPc = "alive"
    /\ regStore = NoInst
    /\ unregCalls = 0
    /\ stopSent = FALSE
    /\ hbLast = "none"

\* The reconciler is built over an empty backend, every address dialable;
\* the environment brings about the other backend states.
Init ==
    /\ backendStore = EmptyMap
    /\ dialable = Addrs
    /\ envLeft = MaxEnv
    /\ RecInit
    /\ RegNone
    /\ BkNone
    /\ TtlNone
    /\ AuxNone

RecSteps ==
    \/ InitDiscover \/ InitVisit \/ InitSend \/ InitSpawn
    \/ ImmDiscover \/ ImmLock \/ ImmVisit \/ ImmSend \/ ImmDone
    \/ PerDiscoverOk \/ (PerDiscoverErr /\ UNCHANGED logVars) \/ PerLock
    \/ PerVisit \/ PerSendRm
    \/ PerRedial \/ PerSendIns \/ PerScan \/ PerDelete \/ PerSendDel
    \/ PerRelease
    \/ PollNext

\* The consumer stays alive in the specifications below (DropDiscover is not
\* among their steps).
Next ==
    \/ RecSteps
    \/ \E i \in Ids, c \in Contents : EnvRegister(i, c)
    \/ \E i \in Ids : EnvUnregister(i)
    \/ \E a \in Addrs : EnvDial(a)

Spec == Init /\ [][Next]_vars

(***************************************************************************)
(* Further specifications of the reconciler.                               *)
(***************************************************************************)
\* The steps of the tasks and of the consumer that change the state.
Progress ==
    \/ InitDiscover \/ InitVisit \/ InitSend \/ InitSpawn
    \/ ImmDiscover \/ ImmLock \/ ImmVisit \/ ImmSend \/ ImmDone
    \/ PerDiscoverOk \/ PerLock \/ PerVisit \/ PerSendRm
    \/ PerRedial \/ PerSendIns \/ PerScan \/ PerDelete \/ PerSendDel
    \/ PerRelease
    \/ PollNext

\* The reconciler is built over an empty backend, the addresses in any dial
\* state.
InitFair ==
    /\ backendStore = EmptyMap
    /\ dialable \in SUBSET Addrs
    /\ envLeft = MaxEnvFair
    /\ RecInit
    /\ RegNone
    /\ BkNone
    /\ TtlNone
    /\ AuxNone

\* The runtime keeps scheduling the spawned tasks, the ticker keeps firing,
\* the backend answers a discover eventually and the consumer keeps polling.
FairSpec == InitFair /\ [][Next]_vars /\ WF_vars(Progress)

\* One instance whose payload never changes, registered and unregistered
\* over and over, every dial succeeding: the scenario that fills the channel.
InitChan ==
    /\ backendStore = EmptyMap
    /\ dialable = Addrs
    /\ envLeft = MaxEnvChan
    /\ RecInit
    /\ RegNone
    /\ BkNone
    /\ TtlNone
    /\ AuxNone

NextChan ==
    \/ InitDiscover \/ InitVisit \/ InitSend \/ InitSpawn
    \/ ImmDiscover \/ ImmLock \/ ImmVisit \/ ImmSend \/ ImmDone
    \/ PerDiscoverOk \/ (PerDiscoverErr /\ UNCHANGED logVars) \/ PerLock
    \/ PerVisit
    \/ PerSendIns \/ PerScan \/ PerDelete \/ PerSendDel \/ PerRelease
    \/ PollNext
    \/ EnvRegister("n1", "c1")
    \/ EnvUnregister("n1")

SpecChan == InitChan /\ [][NextChan]_vars

(***************************************************************************)
(* Properties of the reconciler.                                           *)
(***************************************************************************)
Events == 1..Len(emitted)

\* The latest emitted Change of instance i, if any, is Insert(i, a).
Live(i, a) ==
    \E k \in Events :
      /\ emitted[k] = Insert(i, a)
      /\ \A j \in Events : j > k => emitted[j].id # i

\* C1: every emitted Remove(id) is preceded on the stream by a strictly
\* earlier Insert(id, _).
C1_NoSpuriousRemove ==
    \A k \in Events :
      emitted[k].op = "Remove" =>
        \E j \in 1..(k - 1) :
          emitted[j].op = "Insert" /\ emitted[j].id = emitted[k].id

\* C2: an instance that stays registered with a dialable address is
\* eventually announced by an Insert carrying a channel to that address.
C2_RoundTrip ==
    \A i \in Ids, c \in Contents :
      <>[](backendStore[i] = c /\ AddrOf(c) \in dialable)
        => <>Live(i, AddrOf(c))

\* C3: when the periodic pass has finished its deletion scan, every id its
\* discover result lacks is gone from the last-known map and from the channel
\* cache, and a Remove was emitted in this pass for each id the scan found;
\* and an instance that is held in the last-known map and is no longer
\* registered is eventually removed, its latest event being Remove.
C3_ScanDone == pc["per"] = "del" /\ todo["per"] = {}

C3_RemovalAfterDeregister ==
    /\ [](C3_ScanDone =>
            \A i \in Ids :
              snap["per"][i] = NoInst =>
                /\ instances[i] = NoInst
                /\ channel_cache[i] = NoChan
                /\ i \in scanned =>
                     \E k \in Events : k > passLen /\ emitted[k] = Remove(i))
    /\ \A i \in Ids :
         (backendStore[i] = NoInst /\ instances[i] # NoInst)
           ~> \/ backendStore[i] # NoInst
              \/ /\ instances[i] = NoInst
                 /\ \E k \in Events :
                      /\ emitted[k] = Remove(i)
                      /\ \A j \in Events : j > k => emitted[j].id # i

C3_Witness == C3_ScanDone /\ scanned # {}

\* C4 as stated: once the periodic pass has handled an instance whose payload
\* changed, the events of that handling are exactly Remove(id) followed by
\* Insert(id, channel to the new address).
C4_RemoveThenInsert ==
    handled.st = "done" =>
      /\ Len(emitted) = handled.from + 2
      /\ emitted[handled.from + 1] = Remove(handled.id)
      /\ emitted[handled.from + 2] = Insert(handled.id, AddrOf(handled.c))

\* C4 amended: the handling emits Remove(id) and then, if the dial to the new
\* address succeeds, Insert(id, channel to the new address) and nothing else;
\* if the dial fails, Remove(id) is its only event.
C4_RemoveThenInsertIfDialed ==
    handled.st = "done" =>
      /\ Len(emitted) >= handled.from + 1
      /\ emitted[handled.from + 1] = Remove(handled.id)
      /\ IF handled.ok
           THEN /\ Len(emitted) = handled.from + 2
                /\ emitted[handled.from + 2] =
                     Insert(handled.id, AddrOf(handled.c))
           ELSE Len(emitted) = handled.from + 1

C4_Witness == handled.st = "done" /\ handled.ok

\* C5: every Insert carries an established channel, and an instance whose
\* dial failed in the running pass has no Insert in that pass.
C5_InsertOnlyWithChannel ==
    \A k \in Events :
      emitted[k].op = "Insert" =>
        /\ emitted[k].ch \in Addrs
        /\ k > passLen => emitted[k].id \notin failed

C5_Witness ==
    /\ failed # {}
    /\ \E k \in Events : k > passLen /\ emitted[k].op = "Insert"

\* C6: while the consumer is alive, the Changes handed to send are exactly
\* those delivered, those queued and the one a sender is waiting to place, in
\* that order; the channel never holds more than its capacity.
C6_ExactlyOnceInOrder ==
    rxAlive =>
      /\ emitted = delivered \o queue \o pend
      /\ Len(queue) <= Buffer

C6_Witness ==
    /\ rxAlive
    /\ Len(queue) = Buffer
    /\ pend # <<>>
    /\ Len(delivered) > 0

(***************************************************************************)
(* ServiceRegistry: the heartbeat task spawned by ServiceRegistry::new.    *)
(***************************************************************************)
\* DiscoveryBackend::heartbeat (default, used by the lease-KV backend):
\* register(instance.clone()), which writes the instance's record again.
Heartbeat(store, inst) == inst

\* The initial heartbeat is issued.
HbInitial ==
    /\ hbPc = "initial"
    /\ hbPc' = "beating"
    /\ UNCHANGED <<regInstance, hbInstance, shutdown_tx, txAlive, sdChan,
                   shPc, shResult, shCalls, dropPc, regStore, unregCalls,
                   stopSent, hbLast, recVars, extVars>>

\* select!: the interval_timer.tick() branch is taken and a heartbeat is
\* issued.  select! polls its branches in random order, so a ready tick may
\* be taken whether or not shutdown_rx.recv() is ready too.
HbTick ==
    /\ hbPc = "select"
    /\ hbPc' = "beating"
    /\ UNCHANGED <<regInstance, hbInstance, shutdown_tx, txAlive, sdChan,
                   shPc, shResult, shCalls, dropPc, regStore, unregCalls,
                   stopSent, hbLast, recVars, extVars>>

\* Faulty variant: an Err arm that leaves the loop.
AfterHeartbeatExit(res) == IF res = "Err" THEN "stopped" ELSE "select"

\* `match backend_clone.heartbeat(..).await { Ok(_) => .., Err(e) => .. }`:
\* both arms only log, so the task goes on to (the next turn of) the loop.
AfterHeartbeat(res) == "select"

\* backend.heartbeat(&instance_clone) takes effect and returns Ok, or fails;
\* either result is only logged and the task goes (back) to the select loop.
HbComplete ==
    /\ hbPc = "beating"
    /\ \E ok \in BOOLEAN :
         IF ok
           THEN /\ regStore' = Heartbeat(regStore, hbInstance)
                /\ hbLast' = "Ok"
                /\ hbPc' = AfterHeartbeat("Ok")
           ELSE /\ hbLast' = "Err"
                /\ hbPc' = AfterHeartbeat("Err")
                /\ UNCHANGED regStore
    /\ UNCHANGED <<regInstance, hbInstance, shutdown_tx, txAlive, sdChan,
                   shPc, shResult, shCalls, dropPc, unregCalls, stopSent,
                   recVars, extVars>>

\* select!: the shutdown_rx.recv() branch is taken: recv() is ready with
\* Some(()) when a message is queued and with None when the channel is
\* empty and every Sender is gone; the pattern `_` accepts both.
HbStop ==
    /\ hbPc = "select"
    /\ sdChan > 0 \/ ~txAlive
    /\ sdChan' = IF sdChan > 0 THEN sdChan - 1 ELSE sdChan
    /\ hbPc' = "stopped"
    /\ UNCHANGED <<regInstance, hbInstance, shutdown_tx, txAlive, shPc,
                   shResult, shCalls, dropPc, regStore, unregCalls, stopSent,
                   hbLast, recVars, extVars>>

(***************************************************************************)
(* ServiceRegistry::shutdown, update_instance and Drop.                    *)
(***************************************************************************)
\* Faulty variant: the Sender is read but left in the Option.
TakeTxKept(tx) == tx

\* self.shutdown_tx.take(): what the Option holds afterwards.
TakeTx(tx) == "none"

\* `let _ = shutdown_tx.send(());` : Sender::send is an async fn; its future
\* is dropped without being polled, so nothing is placed on the channel.
SendNotAwaited(n) == n

\* Faulty variant: the stop message is not placed.
TrySendLost(n, rxOpen) == n

\* shutdown_tx.try_send(()): placed when the channel has room and the
\* Receiver exists; the error is discarded otherwise.
TrySend(n, rxOpen) == IF rxOpen /\ n < ShutdownBuffer THEN n + 1 ELSE n

\* shutdown() is called.  With the Sender present: take it, "send" the stop
\* signal and start the 100 ms sleep.  Otherwise return Ok at once.
ShutdownCall ==
    /\ shPc = "idle"
    /\ dropPc = "alive"
    /\ shCalls < MaxShutdownCalls
    /\ shCalls' = shCalls + 1
    /\ IF shutdown_tx = "some"
         THEN /\ shutdown_tx' = TakeTx(shutdown_tx)
              /\ sdChan' = SendNotAwaited(sdChan)
              /\ stopSent' = (stopSent \/ SendNotAwaited(sdChan) > sdChan)
              /\ shPc' = "sleeping"
              /\ UNCHANGED shResult
         ELSE /\ shResult' = Append(shResult, "Ok")
              /\ UNCHANGED <<shutdown_tx, sdChan, stopSent, shPc>>
    /\ UNCHANGED <<regInstance, hbInstance, txAlive, hbPc, dropPc, regStore,
                   unregCalls, hbLast, recVars, extVars>>

\* The sleep is over: backend.unregister(&instance_id) is called.
ShutdownUnregister ==
    /\ shPc = "sleeping"
    /\ shPc' = "unregistering"
    /\ unregCalls' = unregCalls + 1
    /\ UNCHANGED <<regInstance, hbInstance, shutdown_tx, txAlive, sdChan, hbPc,
                   shResult, shCalls, dropPc, regStore, stopSent, hbLast,
                   recVars, extVars>>

\* unregister takes effect and returns Ok, or fails; shutdown() returns that
\* result and the taken Sender goes out of scope.
ShutdownReturn ==
    /\ shPc = "unregistering"
    /\ \E ok \in BOOLEAN :
         IF ok
           THEN /\ regStore' = NoInst
                /\ shResult' = Append(shResult, "Ok")
           ELSE /\ shResult' = Append(shResult, "Err")
                /\ UNCHANGED regStore
    /\ txAlive' = FALSE
    /\ shPc' = "idle"
    /\ UNCHANGED <<regInstance, hbInstance, shutdown_tx, sdChan, hbPc, shCalls,
                   dropPc, unregCalls, stopSent, hbLast, recVars, extVars>>

\* update_instance(instance): self.instance is replaced and the new payload
\* is registered (Ok) or the register fails.
UpdateInstance(c) ==
    /\ shPc = "idle"
    /\ dropPc = "alive"
    /\ regInstance # c
    /\ regInstance' = c
    /\ \E ok \in BOOLEAN :
         IF ok THEN regStore' = c ELSE UNCHANGED regStore
    /\ UNCHANGED <<hbInstance, shutdown_tx, txAlive, sdChan, hbPc, shPc,
                   shResult, shCalls, dropPc, unregCalls, stopSent, hbLast,
                   recVars, extVars>>

\* The registry is dropped.  With the Sender present: try_send the stop
\* signal and, if a runtime is current, spawn the task that unregisters; the
\* Sender goes out of scope.  Drop itself waits for nothing.
Drop ==
    /\ shPc = "idle"
    /\ dropPc = "alive"
    /\ IF shutdown_tx = "some"
         THEN /\ shutdown_tx' = TakeTx(shutdown_tx)
              /\ sdChan' = TrySend(sdChan, hbPc # "stopped")
              /\ stopSent' = (stopSent \/ TrySend(sdChan, hbPc # "stopped") > sdChan)
              /\ txAlive' = FALSE
              /\ \E runtime \in BOOLEAN :
                   dropPc' = IF runtime THEN "spawned" ELSE "dropped"
         ELSE /\ dropPc' = "dropped"
              /\ UNCHANGED <<shutdown_tx, sdChan, stopSent, txAlive>>
    /\ UNCHANGED <<regInstance, hbInstance, hbPc, shPc, shResult, shCalls,
                   regStore, unregCalls, hbLast, recVars, extVars>>

\* The task Drop spawned: its 50 ms sleep is over, backend.unregister is
\* called.
DropTaskUnregister ==
    /\ dropPc = "spawned"
    /\ dropPc' = "unregistering"
    /\ unregCalls' = unregCalls + 1
    /\ UNCHANGED <<regInstance, hbInstance, shutdown_tx, txAlive, sdChan, hbPc,
                   shPc, shResult, shCalls, regStore, stopSent, hbLast,
                   recVars, extVars>>

\* The spawned task's unregister takes effect, or fails; the task ends.
DropTaskReturn ==
    /\ dropPc = "unregistering"
    /\ \E ok \in BOOLEAN :
         IF ok THEN regStore' = NoInst ELSE UNCHANGED regStore
    /\ dropPc' = "finished"
    /\ UNCHANGED <<regInstance, hbInstance, shutdown_tx, txAlive, sdChan, hbPc,
                   shPc, shResult, shCalls, unregCalls, stopSent, hbLast,
                   recVars, extVars>>

\* No reconciler has been built.
RecNone ==
    /\ backendStore = EmptyMap
    /\ dialable = Addrs
    /\ envLeft = 0
    /\ instances = EmptyMap
    /\ channel_cache = [i \in Ids |-> NoChan]
    /\ queue = <<>>
    /\ rxAlive = TRUE
    /\ lock = "free"
    /\ pc = [t \in Tasks |-> "unborn"]
    /\ snap = [t \in Tasks |-> EmptyMap]
    /\ todo = [t \in Tasks |-> {}]
    /\ cur = [t \in Tasks |-> NoId]
    /\ pend = <<>>
    /\ emitted = <<>>
    /\ delivered = <<>>
    /\ passLen = 0
    /\ failed = {}
    /\ handled = Idle
    /\ scanned = {}

\* ServiceRegistry::new has returned: the channel exists, the heartbeat task
\* is spawned and owns instance_clone; the instance was registered by the
\* caller (register_and_discover) or not (ServiceRegistry::new used directly).
RegInit ==
    /\ regInstance = "c1"
    /\ hbInstance = "c1"
    /\ shutdown_tx = "some"
    /\ txAlive = TRUE
    /\ sdChan = 0
    /\ hbPc = "initial"
    /\ shPc = "idle"
    /\ shResult = <<>>
    /\ shCalls = 0
    /\ dropPc = "alive"
    /\ regStore \in {"c1", NoInst}
    /\ unregCalls = 0
    /\ stopSent = FALSE
    /\ hbLast = "none"
    /\ RecNone
    /\ BkNone
    /\ TtlNone
    /\ AuxNone

\* update_instance is used while the registry is in service.
RegNext ==
    \/ HbInitial \/ HbTick \/ HbComplete \/ HbStop
    \/ ShutdownCall \/ ShutdownUnregister \/ ShutdownReturn
    \/ \E c \in Contents : shCalls = 0 /\ UpdateInstance(c)
    \/ Drop \/ DropTaskUnregister \/ DropTaskReturn

SpecRegistry == RegInit /\ [][RegNext]_vars

\* The runtime keeps scheduling the heartbeat task and the task Drop spawned,
\* backend calls return, and select! (which picks among its ready branches
\* at random) does not pass over a ready recv() for ever.
FairRegistry ==
    /\ RegInit /\ [][RegNext]_vars
    /\ WF_vars(HbInitial) /\ WF_vars(HbComplete) /\ SF_vars(HbStop)
    /\ WF_vars(DropTaskUnregister) /\ WF_vars(DropTaskReturn)

(***************************************************************************)
(* Properties of the registry.                                             *)
(***************************************************************************)
\* C7: once the first shutdown() has returned Ok, the backend no longer
\* holds the registry's instance.
C7_GoneAfterShutdown ==
    (Len(shResult) >= 1 /\ shResult[1] = "Ok") => regStore = NoInst

\* C8: when shutdown() calls backend.unregister, a stop message has been
\* placed on the heartbeat task's shutdown channel.
C8_StopBeforeUnregister ==
    shPc = "unregistering" => stopSent

\* C9: the first shutdown() call takes the Sender and unregisters once, which
\* closes the stop channel; every later call returns Ok, sends nothing, calls
\* no backend operation and changes nothing.
C9_ShutdownIdempotent ==
    /\ []((shCalls >= 1 /\ shPc = "idle" /\ dropPc = "alive") =>
            /\ unregCalls = 1
            /\ shutdown_tx = "none"
            /\ ~txAlive)
    /\ [][(shCalls >= 1 /\ shCalls' = shCalls + 1) =>
            /\ shResult' = Append(shResult, "Ok")
            /\ UNCHANGED <<regInstance, hbInstance, shutdown_tx, txAlive,
                           sdChan, hbPc, shPc, dropPc, regStore, unregCalls,
                           stopSent, hbLast>>]_vars

C9_Witness == shCalls = 2 /\ Len(shResult) = 2 /\ shPc = "idle"

\* C10: a Drop that finds the Sender and a runtime places the stop message
\* and returns without the unregister having been called or the heartbeat
\* task having stopped; afterwards backend.unregister is eventually called
\* and returns, and the heartbeat task eventually stops.
C10_DropDeregisters ==
    /\ [][(dropPc = "alive" /\ dropPc' = "spawned") =>
            /\ stopSent'
            /\ sdChan' = sdChan + 1
            /\ UNCHANGED <<unregCalls, hbPc, regStore>>]_vars
    /\ (dropPc = "spawned") ~> (dropPc = "finished" /\ unregCalls >= 1)
    /\ (dropPc = "spawned") ~> (hbPc = "stopped")

C10_Witness ==
    dropPc = "finished" /\ hbPc = "stopped" /\ stopSent /\ shCalls = 0

\* C11: a failed backend.heartbeat (the initial one or one on a tick) never
\* ends the heartbeat task: the task is back in its select loop, where the
\* tick branch can be taken again, and it stops only by taking the recv()
\* branch (a stop message or the closed channel).
C11_ErrorsDoNotStopHeartbeat ==
    /\ [][(hbPc = "beating" /\ hbPc' # "beating") =>
            hbPc' = "select"]_vars
    /\ [](hbPc = "select" => ENABLED HbTick)
    /\ [][(hbPc # "stopped" /\ hbPc' = "stopped") =>
            (hbPc = "select" /\ (sdChan > 0 \/ ~txAlive))]_vars

\* A heartbeat failed and the next tick's heartbeat has been issued.
C11_Witness == hbLast = "Err" /\ hbPc = "beating"

(***************************************************************************)
(* Bounds and values of the discovery backends.                            *)
(***************************************************************************)
\* register / unregister calls made on one backend.
MaxBackendOps == 2

ServiceTypes == {"svc-a", "svc-b"}
\* The service types in key (byte) order.
ServiceTypeOrder == <<"svc-a", "svc-b">>
InstanceIds == {"node-1", "node-2"}
\* The instance ids in key (byte) order.
InstanceIdOrder == <<"node-1", "node-2">>
\* ServiceInstance.address; the first one is an unspecified IP.
SocketAddrs == {"0.0.0.0:8080", "10.0.0.1:8080"}
\* Option::None of ServiceInstance.namespace / version and of a filter.
NoNamespace == "nil"
NoVersion == "nil"
\* Namespaces instances are registered in: "flare" is the lease-KV backend's
\* default, "test" is in none of its fallback lists.
Namespaces == {"flare", "test"}
\* ServiceInstance.tags: a map, as its set of <<key, value>> entries; the
\* key of the last one holds a '='.
TagMaps == {{}, {<<"env", "prod">>}, {<<"a=b", "c">>}}

\* ServiceInstance (the fields the backends read; the others are stored and
\* returned verbatim by the lease-KV backend).
Instance(st, id, addr, ns, ver, tags) ==
    [service_type |-> st, instance_id |-> id, address |-> addr,
     namespace |-> ns, version |-> ver, tags |-> tags]

\* The instances handed to register: instances of one service type, in any
\* namespace or none, with any address and tag map.
Instances ==
    {Instance("svc-a", id, addr, ns, NoVersion, tags) :
       id \in InstanceIds, addr \in SocketAddrs,
       ns \in Namespaces \cup {NoNamespace}, tags \in TagMaps}

\* The arguments of a discover call; tags is <<>> (None) or <<map>>.
Query(st, ns, ver, tags) ==
    [service_type |-> st, namespace |-> ns, version |-> ver, tags |-> tags]

Queries ==
    {Query(st, ns, NoVersion, tags) :
       st \in ServiceTypes, ns \in Namespaces \cup {NoNamespace},
       tags \in {<<>>, <<{<<"env", "prod">>}>>}}

\* backend_config["addresses"] of the DNS and mesh backends.
AddressLists ==
    {<<>>} \cup {<<a>> : a \in SocketAddrs}
           \cup {<<a, b>> : a \in SocketAddrs, b \in SocketAddrs}

(***************************************************************************)
(* ServiceInstance: the filter predicates (instance.rs).                   *)
(***************************************************************************)
\* matches_tags: every filter entry is in the instance's tag map with the
\* same value.
MatchesTags(inst, filters) ==
    \A f \in filters : \E t \in inst.tags : t[1] = f[1] /\ t[2] = f[2]

\* matches_version
MatchesVersion(inst, ver) ==
    IF ver = NoVersion THEN TRUE
    ELSE IF inst.version # NoVersion THEN ver = inst.version
    ELSE FALSE

\* Faulty variant: the namespaces are not compared.
MatchesNamespaceAny(inst, ns) == TRUE

\* matches_namespace
MatchesNamespace(inst, ns) ==
    IF ns = NoNamespace THEN TRUE
    ELSE IF inst.namespace # NoNamespace THEN ns = inst.namespace
    ELSE FALSE

\* The three `if let Some(..) = filter { if !instance.matches_..() continue }`
\* blocks shared by the lease-KV and agent-HTTP discover.
PassesFilters(inst, q) ==
    /\ q.namespace # NoNamespace => MatchesNamespace(inst, q.namespace)
    /\ q.version # NoVersion => MatchesVersion(inst, q.version)
    /\ q.tags # <<>> => MatchesTags(inst, q.tags[1])

\* Sequences appended one after another.
RECURSIVE Flatten(_)
Flatten(ss) == IF ss = <<>> THEN <<>> ELSE Head(ss) \o Flatten(Tail(ss))

(***************************************************************************)
(* Stores: a store maps the keys it holds to their values.                 *)
(***************************************************************************)
\* Faulty variant: an existing key keeps its old value.
StorePutIfAbsent(store, key, value) ==
    IF key \in DOMAIN store THEN store
    ELSE [k \in DOMAIN store \cup {key} |-> IF k = key THEN value ELSE store[k]]

\* client.put(key, value) / PUT /v1/agent/service/register: the key's value
\* is written, replacing the one it had.
StorePut(store, key, value) ==
    [k \in DOMAIN store \cup {key} |-> IF k = key THEN value ELSE store[k]]

\* client.delete(key) / PUT /v1/agent/service/deregister/{id}
StoreDelete(store, key) == [k \in DOMAIN store \ {key} |-> store[k]]

(***************************************************************************)
(* EtcdBackend (backend/etcd.rs).                                          *)
(***************************************************************************)
\* EtcdBackend::new: config.namespace is None in every configuration the
\* factory builds, so default_namespace is "flare".
EtcdDefaultNamespace == "flare"

\* service_key with an instance id: "{ns}/services/{service_type}/{id}".
ServiceKey(st, id, ns) == <<ns, st, id>>

\* register: the namespace of the key is the instance's, or "flare"; the
\* value is the serialized instance; PutOptions::new() attaches no lease.
EtcdRegister(store, inst) ==
    LET namespace == IF inst.namespace # NoNamespace THEN inst.namespace
                     ELSE "flare"
    IN  StorePut(store,
                 ServiceKey(inst.service_type, inst.instance_id, namespace),
                 inst)

\* discover: the key prefixes scanned, in order.
EtcdPrefixes(ns) ==
    IF ns # NoNamespace THEN <<ns>> ELSE <<"flare", "flare-test", "default">>

\* client.get(prefix, with_prefix) for "{ns}/services/{st}/": the values of
\* the keys under the prefix, in key order.
ScanService(store, ns, st) ==
    LET ids == SelectSeq(InstanceIdOrder,
                         LAMBDA i : ServiceKey(st, i, ns) \in DOMAIN store)
    IN  [k \in 1..Len(ids) |-> store[ServiceKey(st, ids[k], ns)]]

\* discover: every prefix is scanned and the decoded instances that pass the
\* filters are pushed, in scan order.
EtcdDiscover(store, q) ==
    LET prefixes == EtcdPrefixes(q.namespace)
    IN  Flatten([p \in 1..Len(prefixes) |->
                   SelectSeq(ScanService(store, prefixes[p], q.service_type),
                             LAMBDA inst : PassesFilters(inst, q))])

\* client.get(prefix, with_prefix) for "{ns}/services/": the keys of a
\* namespace, of every service type, in key order.
ScanNamespace(store, ns) ==
    Flatten([t \in 1..Len(ServiceTypeOrder) |->
               LET ids == SelectSeq(InstanceIdOrder,
                            LAMBDA i : ServiceKey(ServiceTypeOrder[t], i, ns)
                                         \in DOMAIN store)
               IN  [k \in 1..Len(ids) |->
                      ServiceKey(ServiceTypeOrder[t], ids[k], ns)]])

\* unregister: the namespaces scanned, in order: the default one, then
\* "flare-test" and "default" (the default one is not scanned twice).
UnregisterNamespaces(default) ==
    <<default>> \o
    SelectSeq(<<"flare-test", "default">>, LAMBDA ns : ns # default)

\* Faulty variant: the instance_id of the scanned value is not compared.
EtcdUnregisterAnyId(store, id) ==
    LET nss == UnregisterNamespaces(EtcdDefaultNamespace)
        keys == Flatten([n \in 1..Len(nss) |-> ScanNamespace(store, nss[n])])
    IN  IF keys = <<>> THEN store ELSE StoreDelete(store, Head(keys))

\* unregister: the first key, in scan order, whose value decodes to an
\* instance with the given instance_id is deleted; Ok is returned whether
\* or not a key was found.
EtcdUnregister(store, id) ==
    LET nss == UnregisterNamespaces(EtcdDefaultNamespace)
        keys == Flatten([n \in 1..Len(nss) |->
                  SelectSeq(ScanNamespace(store, nss[n]),
                            LAMBDA key : store[key].instance_id = id)])
    IN  IF keys = <<>> THEN store ELSE StoreDelete(store, Head(keys))

(***************************************************************************)
(* ConsulBackend (backend/consul.rs).                                      *)
(***************************************************************************)
\* format!("{}={}", key, value)
FormatTag(key, value) == key \o "=" \o value

\* str::split_once('='): the parts before and after the first '=' of s, or
\* <<>> (None) when s holds none.
SplitOnce(s) ==
    LET at == {i \in 1..Len(s) : SubSeq(s, i, i) = "="}
    IN  IF at = {} THEN <<>>
        ELSE LET i == CHOOSE j \in at : \A k \in at : j <= k
             IN  <<SubSeq(s, 1, i - 1), SubSeq(s, i + 1, Len(s))>>

\* discover: a tag string becomes the entry split_once gives, or
\* tag -> "true" when it holds no '='.
ParseTag(s) ==
    LET parts == SplitOnce(s) IN IF parts # <<>> THEN parts ELSE <<s, "true">>

\* register: the "Tags" array: one "key=value" string per tag, then
\* "version=.." and "namespace=.." when the instance carries them.
ConsulTags(inst) ==
    {FormatTag(t[1], t[2]) : t \in inst.tags}
      \cup (IF inst.version # NoVersion
              THEN {FormatTag("version", inst.version)} ELSE {})
      \cup (IF inst.namespace # NoNamespace
              THEN {FormatTag("namespace", inst.namespace)} ELSE {})

\* register: "Address" and "Port": an unspecified IP becomes the loopback
\* address.
ConsulAddress(addr) ==
    IF addr = "0.0.0.0:8080" THEN "127.0.0.1:8080" ELSE addr

\* register: the agent's entry of the service ID is written.
ConsulRegister(ag, inst) ==
    StorePut(ag, inst.instance_id,
             [ID |-> inst.instance_id, Name |-> inst.service_type,
              Tags |-> ConsulTags(inst),
              Address |-> ConsulAddress(inst.address)])

\* discover: the instance built from one entry of the health query:
\* ServiceInstance::new (namespace and version None) with one tag per
\* string of "Tags" (no two strings of an entry parse to the same key).
ConsulInstance(st, entry) ==
    Instance(st, entry.ID, entry.Address, NoNamespace, NoVersion,
             {ParseTag(s) : s \in entry.Tags})

\* discover: GET /v1/health/service/{service_type} lists the entries named
\* service_type; each is rebuilt and filtered like the lease-KV records.
ConsulDiscover(ag, q) ==
    LET ids == SelectSeq(InstanceIdOrder,
                 LAMBDA i : i \in DOMAIN ag /\ ag[i].Name = q.service_type)
        found == [k \in 1..Len(ids) |->
                    ConsulInstance(q.service_type, ag[ids[k]])]
    IN  SelectSeq(found, LAMBDA inst : PassesFilters(inst, q))

\* unregister: the deregister request is sent; the response status is not
\* inspected.
ConsulUnregister(ag, id) == StoreDelete(ag, id)

(***************************************************************************)
(* DnsBackend and MeshBackend (backend/dns.rs, backend/mesh.rs).           *)
(***************************************************************************)
\* format!("{}-{}", service_type, idx)
IndexedId(st, idx) ==
    IF st = "svc-a" THEN <<"svc-a-0", "svc-a-1">>[idx + 1]
    ELSE <<"svc-b-0", "svc-b-1">>[idx + 1]

\* DnsBackend::new / MeshBackend::new: config.namespace is None.
StaticNamespace == "default"

\* DnsBackend::discover: one instance per configured address, in the
\* backend's namespace; _namespace, _version and _tags are not read.
DnsDiscover(addrs, q) ==
    [k \in 1..Len(addrs) |->
       Instance(q.service_type, IndexedId(q.service_type, k - 1), addrs[k],
                StaticNamespace, NoVersion, {})]

\* MeshBackend::discover: one instance per configured address, given the
\* requested namespace (or the backend's), version and tags.
MeshDiscover(addrs, q) ==
    [k \in 1..Len(addrs) |->
       Instance(q.service_type, IndexedId(q.service_type, k - 1), addrs[k],
                IF q.namespace # NoNamespace THEN q.namespace
                ELSE StaticNamespace,
                q.version,
                IF q.tags # <<>> THEN q.tags[1] ELSE {})]

(***************************************************************************)
(* Calls on a backend built by DiscoveryFactory::create_backend.           *)
(***************************************************************************)
BackendKinds == {"etcd", "consul", "dns", "mesh"}

\* The records of a store that a call replaced by another value or deleted.
Replaced(old, new) ==
    {old[k] : k \in {x \in DOMAIN old : x \notin DOMAIN new \/ new[x] # old[x]}}

\* backend.register(instance)
BkRegister(inst) ==
    /\ backendKind \in BackendKinds
    /\ opsLeft > 0
    /\ opsLeft' = opsLeft - 1
    /\ kv' = IF backendKind = "etcd" THEN EtcdRegister(kv, inst) ELSE kv
    /\ agent' = IF backendKind = "consul" THEN ConsulRegister(agent, inst)
                ELSE agent
    /\ lastOp' = [op |-> "register", arg |-> <<inst>>,
                  ret |-> IF backendKind = "dns" THEN "Err" ELSE "Ok",
                  out |-> <<>>,
                  was |-> Replaced(kv, kv') \cup Replaced(agent, agent')]
    /\ UNCHANGED <<backendKind, addresses, ttlVars, auxVars, recVars,
                   regVars>>

\* backend.unregister(instance_id)
BkUnregister(id) ==
    /\ backendKind \in BackendKinds
    /\ opsLeft > 0
    /\ opsLeft' = opsLeft - 1
    /\ kv' = IF backendKind = "etcd" THEN EtcdUnregister(kv, id) ELSE kv
    /\ agent' = IF backendKind = "consul" THEN ConsulUnregister(agent, id)
                ELSE agent
    /\ lastOp' = [op |-> "unregister", arg |-> <<id>>,
                  ret |-> IF backendKind = "dns" THEN "Err" ELSE "Ok",
                  out |-> <<>>,
                  was |-> Replaced(kv, kv') \cup Replaced(agent, agent')]
    /\ UNCHANGED <<backendKind, addresses, ttlVars, auxVars, recVars,
                   regVars>>

\* What backend.discover(service_type, namespace, version, tags) returns.
Discover(kind, store, ag, addrs, q) ==
    CASE kind = "etcd" -> EtcdDiscover(store, q)
      [] kind = "consul" -> ConsulDiscover(ag, q)
      [] kind = "dns" -> DnsDiscover(addrs, q)
      [] kind = "mesh" -> MeshDiscover(addrs, q)

\* backend.discover(..) is called and returns Ok(instances).
BkDiscover(q) ==
    /\ backendKind \in BackendKinds
    /\ lastOp' = [op |-> "discover", arg |-> <<q>>, ret |-> "Ok",
                  out |-> Discover(backendKind, kv, agent, addresses, q),
                  was |-> {}]
    /\ UNCHANGED <<backendKind, kv, agent, addresses, opsLeft, ttlVars,
                   auxVars, recVars, regVars>>

\* create_backend has returned a backend over an empty store; the DNS and
\* mesh backends read their address list from the configuration.
BkInit ==
    /\ backendKind \in BackendKinds
    /\ kv = EmptyStore
    /\ agent = EmptyStore
    /\ addresses \in (IF backendKind \in {"dns", "mesh"} THEN AddressLists
                      ELSE {<<>>})
    /\ opsLeft = MaxBackendOps
    /\ lastOp = NoOp
    /\ RecNone
    /\ RegNone
    /\ TtlNone
    /\ AuxNone

BkNext ==
    \/ \E inst \in Instances : BkRegister(inst)
    \/ \E id \in InstanceIds : BkUnregister(id)
    \/ \E q \in Queries : BkDiscover(q)

SpecBackend == BkInit /\ [][BkNext]_vars

(***************************************************************************)
(* A registration over time: register_and_discover, the heartbeat task's   *)
(* timer and the liveness token of the backend's record.  Time is counted  *)
(* in seconds.                                                             *)
(***************************************************************************)
\* Seconds counted since the last refresh of a registration.
MaxSeconds == 200

\* unwrap_or(20): the default heartbeat interval.
DefaultHeartbeatInterval == 20
\* json!(90): the "ttl" register_and_discover configures for the lease-KV
\* backend.
EtcdTtl == 90
\* unwrap_or(45): the default TTL of the agent's TTL check.
DefaultConsulTtl == 45

\* Values of the environment variables.
EnvHeartbeatValues == {EnvUnset, EnvText, EnvNum(15), EnvNum(30), EnvNum(200)}
EnvEtcdTtlValues == {EnvUnset, EnvNum(30)}
EnvConsulTtlValues == {EnvUnset, EnvText, EnvNum(30), EnvNum(60)}

\* std::env::var(..).ok().and_then(|v| v.parse::<u64>().ok()).unwrap_or(d)
ParseU64Or(env, d) == IF env.kind = "num" THEN env.n ELSE d

\* register_and_discover: the interval handed to ServiceRegistry::new; it is
\* not compared with any TTL.
HeartbeatInterval(hb) == ParseU64Or(hb, DefaultHeartbeatInterval)

\* The TTL of the registration register_and_discover makes: the "ttl" entry
\* of the lease-KV configuration (ETCD_TTL_SECONDS is not read on this
\* path), or the TTL ConsulBackend::register gives the TTL check.
TtlSeconds(kind, etcdTtl, consulTtl) ==
    IF kind = "etcd" THEN EtcdTtl ELSE ParseU64Or(consulTtl, DefaultConsulTtl)

\* ConsulBackend::register: "DeregisterCriticalServiceAfter".
DeregisterSeconds(ttl) == ttl * 2

\* EtcdBackend::register: the lease the key is put under; PutOptions::new()
\* names none.
PutLease(ttl) == "none"

\* The record's liveness token has run out: a key under a lease whose TTL
\* has passed, or an agent entry whose TTL check has been critical (no pass
\* for more than the TTL) for longer than DeregisterCriticalServiceAfter.
Expired(kind, ttl, age) ==
    IF kind = "etcd" THEN PutLease(ttl) # "none" /\ age > ttl
    ELSE age > ttl + DeregisterSeconds(ttl)

\* discover returns the instance: its record exists and, on the agent with
\* CONSUL_PASSING_ONLY=true, its TTL check is passing.
Discovered ==
    /\ present
    /\ (leaseKind = "consul" /\ envPassingOnly) => sinceRefresh <= ttl_seconds

\* register_and_discover(kind, ..): the instance is registered and the
\* registry loop is built with the interval read from the environment.
RegisterAndDiscover ==
    /\ loopState = "unbuilt"
    /\ heartbeat_interval' = HeartbeatInterval(envHeartbeat)
    /\ ttl_seconds' = TtlSeconds(leaseKind, envEtcdTtl, envConsulTtl)
    /\ present' = TRUE
    /\ sinceRefresh' = 0
    /\ sinceTick' = 0
    /\ loopState' = "initial"
    /\ UNCHANGED <<envHeartbeat, envEtcdTtl, envConsulTtl, envPassingOnly,
                   leaseKind, beatsOk, bkVars, auxVars, recVars,
                   regVars>>

\* One second passes; the heartbeat task's timer does not run late, and the
\* backend drops the record once its liveness token has run out.
TtlTick ==
    /\ loopState \in {"running", "stopped"}
    /\ loopState = "running" => sinceTick < heartbeat_interval
    /\ loopState = "stopped" => sinceRefresh < MaxSeconds
    /\ sinceTick' = IF loopState = "running" THEN sinceTick + 1 ELSE sinceTick
    /\ sinceRefresh' = IF sinceRefresh < MaxSeconds THEN sinceRefresh + 1
                       ELSE sinceRefresh
    /\ present' = (present /\ ~Expired(leaseKind, ttl_seconds, sinceRefresh'))
    /\ UNCHANGED <<envHeartbeat, envEtcdTtl, envConsulTtl, envPassingOnly,
                   leaseKind, heartbeat_interval, ttl_seconds, loopState,
                   beatsOk, bkVars, auxVars, recVars,
                   regVars>>

\* The heartbeat task calls backend.heartbeat: at once when spawned, then
\* each time the timer fires.  Lease-KV: register again.  Agent: the TTL
\* check is passed, which fails when the agent no longer has the check.
\* The call may also fail on its way to the backend.
TtlHeartbeat ==
    /\ \/ loopState = "initial"
       \/ loopState = "running" /\ sinceTick = heartbeat_interval
    /\ loopState' = "running"
    /\ sinceTick' = 0
    /\ \E reached \in BOOLEAN :
         LET ok == reached /\ (leaseKind = "consul" => present)
         IN  /\ beatsOk' = (beatsOk /\ ok)
             /\ sinceRefresh' = IF ok THEN 0 ELSE sinceRefresh
             /\ present' = IF ok THEN TRUE ELSE present
    /\ UNCHANGED <<envHeartbeat, envEtcdTtl, envConsulTtl, envPassingOnly,
                   leaseKind, heartbeat_interval, ttl_seconds, bkVars,
                   auxVars, recVars, regVars>>

\* The heartbeat task ends with no unregister: the registry is dropped
\* outside a runtime, or the process goes away.
TtlStop ==
    /\ loopState = "running"
    /\ loopState' = "stopped"
    /\ sinceTick' = 0
    /\ UNCHANGED <<envHeartbeat, envEtcdTtl, envConsulTtl, envPassingOnly,
                   leaseKind, heartbeat_interval, ttl_seconds, sinceRefresh,
                   present, beatsOk, bkVars, auxVars, recVars,
                   regVars>>

\* register_and_discover is about to be called, with the environment set.
TtlInit ==
    /\ envHeartbeat \in EnvHeartbeatValues
    /\ envEtcdTtl \in EnvEtcdTtlValues
    /\ envConsulTtl \in EnvConsulTtlValues
    /\ envPassingOnly \in BOOLEAN
    /\ leaseKind \in {"etcd", "consul"}
    /\ heartbeat_interval = 0
    /\ ttl_seconds = 0
    /\ sinceTick = 0
    /\ sinceRefresh = 0
    /\ present = FALSE
    /\ loopState = "unbuilt"
    /\ beatsOk = TRUE
    /\ BkNone
    /\ AuxNone
    /\ RecNone
    /\ RegNone

TtlNext == RegisterAndDiscover \/ TtlTick \/ TtlHeartbeat \/ TtlStop

SpecTtl == TtlInit /\ [][TtlNext]_vars

(***************************************************************************)
(* Properties of a registration over time.                                 *)
(***************************************************************************)
\* C12: while the registry loop runs (alive, not stopped) and every
\* backend.heartbeat call it has made, one per interval, has succeeded,
\* discover returns the instance.
C12_HeartbeatKeepsAlive ==
    (loopState = "running" /\ beatsOk) => Discovered

\* C13: on the lease-KV backend a registered instance that has had no
\* register or heartbeat for a full TTL (and no unregister) is no longer
\* returned by discover: the lease its key was put under has run out.
C13_LeaseExpires ==
    (leaseKind = "etcd" /\ loopState \in {"running", "stopped"}
       /\ sinceRefresh > ttl_seconds) => ~Discovered

\* C14: whatever the environment holds, the interval register_and_discover
\* gives the registry loop satisfies heartbeat_interval * 2 <= TTL of the
\* chosen backend.
C14_TtlCalibration ==
    loopState # "unbuilt" => heartbeat_interval * 2 <= ttl_seconds

(***************************************************************************)
(* Properties of the backends.                                             *)
(***************************************************************************)
\* What the backend in use returns for a query in the current state.
Returns(q) == Discover(backendKind, kv, agent, addresses, q)

\* The discover call of instance inst's service type and namespace, with
\* no version and no tag filter.
QueryOf(inst) == Query(inst.service_type, inst.namespace, NoVersion, <<>>)

\* C15: on the lease-KV and agent-HTTP backends, once register(I) has
\* succeeded (and no unregister followed), discover(I.service_type,
\* I.namespace, nil, nil) contains I.instance_id with I.address.  Stated
\* for the instances whose address the agent backend registers as it is.
C15_RegisterThenDiscover ==
    (backendKind \in {"etcd", "consul"} /\ lastOp.op = "register"
       /\ lastOp.ret = "Ok"
       /\ ConsulAddress(lastOp.arg[1].address) = lastOp.arg[1].address) =>
      LET I == lastOp.arg[1]
          out == Returns(QueryOf(I))
      IN  \E k \in 1..Len(out) :
            /\ out[k].instance_id = I.instance_id
            /\ out[k].address = I.address

\* The discover calls with no version and no tag filter.
PlainQueries ==
    {Query(st, ns, NoVersion, <<>>) :
       st \in ServiceTypes, ns \in Namespaces \cup {NoNamespace}}

\* C16: on the lease-KV backend, once unregister(instance_id) has returned
\* Ok, no discover(service_type, N, nil, nil) contains that instance_id,
\* whatever namespace N the instance was registered in.
C16_UnregisterThenGone ==
    (backendKind = "etcd" /\ lastOp.op = "unregister" /\ lastOp.ret = "Ok") =>
      \A q \in PlainQueries :
        \A k \in 1..Len(Returns(q)) :
          Returns(q)[k].instance_id # lastOp.arg[1]

\* The ids the backend in use holds a record of (in any namespace).
RegisteredIds ==
    {kv[key].instance_id : key \in DOMAIN kv} \cup DOMAIN agent

OneRegisterKv(inst) == EtcdRegister(EmptyStore, inst)
OneRegisterAgent(inst) == ConsulRegister(EmptyStore, inst)

\* The instance is registered: the store holds the record one register
\* of it leaves.
Registered(inst, store, ag) ==
    IF backendKind = "etcd"
      THEN \A key \in DOMAIN OneRegisterKv(inst) :
             key \in DOMAIN store /\ store[key] = inst
      ELSE \A id \in DOMAIN OneRegisterAgent(inst) :
             id \in DOMAIN ag /\ ag[id] = OneRegisterAgent(inst)[id]

\* The stored records of (inst.namespace, inst.service_type,
\* inst.instance_id).
RecordsOf(inst, store, ag) ==
    IF backendKind = "etcd"
      THEN {store[key] : key \in
              {x \in DOMAIN store :
                 /\ store[x].instance_id = inst.instance_id
                 /\ store[x].service_type = inst.service_type
                 /\ store[x].namespace = inst.namespace}}
      ELSE {ag[id] : id \in
              {x \in DOMAIN ag :
                 /\ ag[x].ID = inst.instance_id
                 /\ ag[x].Name = inst.service_type}}

\* The instance discover returns for a registered inst.
ViewOf(inst) ==
    IF backendKind = "etcd" THEN inst
    ELSE ConsulInstance(inst.service_type,
                        OneRegisterAgent(inst)[inst.instance_id])

\* r is a returned instance of inst's (namespace, service_type, id).
SameIdentity(r, inst) ==
    /\ r.instance_id = inst.instance_id
    /\ r.service_type = inst.service_type
    /\ backendKind = "etcd" => r.namespace = inst.namespace

\* C18: register(I) leaves exactly one record for I's (namespace,
\* service_type, instance_id), the one a single register of I leaves;
\* registering an instance that is registered already changes nothing; and
\* after a register with changed payload every discover returns the new
\* payload for that identity, never the old one.
C18_RegisterIdempotent ==
    /\ [][(backendKind \in {"etcd", "consul"} /\ opsLeft' < opsLeft
             /\ lastOp'.op = "register") =>
            LET I == lastOp'.arg[1]
            IN  /\ lastOp'.ret = "Ok"
                /\ Cardinality(RecordsOf(I, kv', agent')) = 1
                /\ Registered(I, kv', agent')
                /\ Registered(I, kv, agent) => (kv' = kv /\ agent' = agent)]_vars
    /\ []((backendKind \in {"etcd", "consul"} /\ lastOp.op = "register") =>
            \A q \in Queries :
              LET out == Returns(q)
              IN  \A k \in 1..Len(out) :
                    SameIdentity(out[k], lastOp.arg[1])
                      => out[k] = ViewOf(lastOp.arg[1]))

\* An instance was registered over a record of its identity with another
\* address, and a discover returns it with the new address.
C18_Witness ==
    /\ backendKind \in {"etcd", "consul"}
    /\ lastOp.op = "register"
    /\ \E old \in lastOp.was :
         IF backendKind = "etcd"
           THEN SameIdentity(old, lastOp.arg[1])
                  /\ old.address # lastOp.arg[1].address
           ELSE old.Name = lastOp.arg[1].service_type
                  /\ old.Address # ConsulAddress(lastOp.arg[1].address)
    /\ \E q \in Queries :
         \E k \in 1..Len(Returns(q)) : Returns(q)[k] = ViewOf(lastOp.arg[1])

\* C19: on every backend, a discover with tag filter t returns only
\* instances whose tag map holds every key of t with the same value.
C19_TagFilter ==
    (lastOp.op = "discover" /\ lastOp.arg[1].tags # <<>>) =>
      \A k \in 1..Len(lastOp.out) :
        \A f \in lastOp.arg[1].tags[1] : f \in lastOp.out[k].tags

\* The namespace a returned instance was registered in (NoNamespace when it
\* was registered without one): the lease-KV backend returns the stored
\* instance, the agent backend carries it as the tag "namespace".
RegisteredNamespace(r) ==
    IF backendKind = "etcd" THEN r.namespace
    ELSE IF \E t \in r.tags : t[1] = "namespace"
      THEN (CHOOSE t \in r.tags : t[1] = "namespace")[2]
      ELSE NoNamespace

\* C20: an instance registered in namespace A is never returned by a
\* discover with a namespace filter B other than A.
C20_NamespaceIsolation ==
    (backendKind \in {"etcd", "consul"} /\ lastOp.op = "discover"
       /\ lastOp.arg[1].namespace # NoNamespace) =>
      \A k \in 1..Len(lastOp.out) :
        \/ RegisteredNamespace(lastOp.out[k]) = NoNamespace
        \/ RegisteredNamespace(lastOp.out[k]) = lastOp.arg[1].namespace

\* A discover with namespace filter B returned an instance of B while the
\* store also holds an instance of the same service type registered in
\* another namespace.
C20_Witness ==
    /\ backendKind = "etcd"
    /\ lastOp.op = "discover"
    /\ lastOp.arg[1].namespace # NoNamespace
    /\ Len(lastOp.out) = 1
    /\ \E key \in DOMAIN kv :
         /\ kv[key].service_type = lastOp.arg[1].service_type
         /\ kv[key].namespace \in Namespaces \ {lastOp.arg[1].namespace}

\* The records a lease-KV discover of query q scans: the values under the
\* key prefixes of q's namespace and service type.
ScannedBy(q) ==
    UNION {{ScanService(kv, EtcdPrefixes(q.namespace)[p], q.service_type)[k] :
              k \in 1..Len(ScanService(kv, EtcdPrefixes(q.namespace)[p],
                                       q.service_type))} :
             p \in 1..Len(EtcdPrefixes(q.namespace))}

\* The instances a discover call returned.
Returned == {lastOp.out[k] : k \in 1..Len(lastOp.out)}

\* C21: the namespace filter of discover treats absence on either side as a
\* match: of the records a discover scans, one is returned when the filter
\* is nil or the record carries no namespace (and the version and tag
\* filters pass).
C21_NamespaceAbsenceMatches ==
    (backendKind = "etcd" /\ lastOp.op = "discover") =>
      LET q == lastOp.arg[1]
      IN  \A r \in ScannedBy(q) :
            ((q.namespace = NoNamespace \/ r.namespace = NoNamespace)
               /\ (q.version # NoVersion => MatchesVersion(r, q.version))
               /\ (q.tags # <<>> => MatchesTags(r, q.tags[1])))
              => r \in Returned

\* The agent's TTL check of the registration is passing: it was passed less
\* than a TTL ago.
CheckPassing == sinceRefresh <= ttl_seconds

\* C22: no discover call returns an unhealthy instance: on the agent-HTTP
\* backend, whatever CONSUL_PASSING_ONLY holds, an instance discover
\* returns has a passing check.
C22_NoUnhealthyReturned ==
    (leaseKind = "consul" /\ loopState # "unbuilt" /\ Discovered)
      => CheckPassing

\* C23: on the agent-HTTP backend tags round-trip through register and
\* discover: the instance discover returns for a registered instance has
\* the tag map the instance was registered with.
C23_TagsRoundTrip ==
    (backendKind = "consul" /\ lastOp.op = "register" /\ lastOp.ret = "Ok") =>
      LET I == lastOp.arg[1]
          out == Returns(Query(I.service_type, NoNamespace, NoVersion, <<>>))
      IN  /\ \E k \in 1..Len(out) : out[k].instance_id = I.instance_id
          /\ \A k \in 1..Len(out) :
               out[k].instance_id = I.instance_id => out[k].tags = I.tags

(***************************************************************************)
(* ServiceClient (discover.rs): get_channel and call_service over          *)
(* tower::balance::p2c::Balance, which reads the ServiceDiscover stream.   *)
(***************************************************************************)
\* Changes the updater sends to one client.
MaxChanges == 3

\* The Changes an updater may send.
ChangeEvents ==
    {Insert(i, a) : i \in Ids, a \in Addrs} \cup {Remove(i) : i \in Ids}

\* An entry of Balance.services: the key and its ChannelService.
Entry(ev) == [key |-> ev.id, svc |-> ev.ch]

\* The position of key among the ready services, or 0.
IndexOf(rdy, key) ==
    IF \E k \in 1..Len(rdy) : rdy[k].key = key
      THEN CHOOSE k \in 1..Len(rdy) : rdy[k].key = key
      ELSE 0

\* IndexMap::swap_remove_index: the entry at idx is replaced by the last
\* one, and the list is one shorter.
SwapRemoveIndex(rdy, idx) ==
    LET moved == [rdy EXCEPT ![idx] = rdy[Len(rdy)]]
    IN  SubSeq(moved, 1, Len(rdy) - 1)

\* Balance on Change::Insert: services.push(key, svc), promoted to ready at
\* once (ChannelService::poll_ready is always ready): the service of a
\* known key is replaced in place, a new key is appended.
ReadyPush(rdy, ev) ==
    IF IndexOf(rdy, ev.id) # 0
      THEN [rdy EXCEPT ![IndexOf(rdy, ev.id)] = Entry(ev)]
      ELSE Append(rdy, Entry(ev))

\* Balance on Change::Remove: services.evict(key).
ReadyEvict(rdy, key) ==
    IF IndexOf(rdy, key) # 0 THEN SwapRemoveIndex(rdy, IndexOf(rdy, key))
    ELSE rdy

\* update_pending_from_discover: every Change the stream holds is applied,
\* in order, until the stream is pending.
RECURSIVE UpdateFromDiscover(_, _)
UpdateFromDiscover(rdy, q) ==
    IF q = <<>> THEN rdy
    ELSE UpdateFromDiscover(
           IF Head(q).op = "Insert" THEN ReadyPush(rdy, Head(q))
           ELSE ReadyEvict(rdy, Head(q).id),
           Tail(q))

\* p2c_ready_index: None of no ready service, the only one, or the less
\* loaded of two sampled at random (the load is the constant 0, so the
\* first sampled one): any position.
P2cReadyIndex(rdy) == IF rdy = <<>> THEN {0} ELSE 1..Len(rdy)

\* poll_ready: the index the call ends with: the one selected before when
\* check_ready_index still finds a service there, or a new selection.
PollReadyIndex(rdy, idx) ==
    IF idx # 0 /\ idx <= Len(rdy) THEN {idx} ELSE P2cReadyIndex(rdy)

\* Faulty variant: readiness is reported whether or not a service is
\* selected.
PollOutcomeAlwaysReady(idx) == "Ready"

\* poll_ready: Poll::Pending while no service is selected.
PollOutcome(idx) == IF idx = 0 THEN "Pending" ELSE "Ready"

\* Balance::call: ready_index.take().expect("called before ready"), then
\* call_ready_index: the selected ChannelService returns its Channel and
\* goes back to the end of the services.
BalanceCall(rdy, idx) ==
    IF idx = 0 THEN [result |-> <<"panic", NoChan>>, services |-> rdy]
    ELSE [result |-> <<"Ok", rdy[idx].svc>>,
          services |-> Append(SwapRemoveIndex(rdy, idx), rdy[idx])]

\* ServiceDiscoverUpdater::insert / remove: a Change is sent to the stream.
UpdaterSend(ev) ==
    /\ callOp # "none"
    /\ changesLeft > 0
    /\ Len(changes) < Buffer
    /\ changesLeft' = changesLeft - 1
    /\ changes' = Append(changes, ev)
    /\ UNCHANGED <<ready, ready_index, callOp, callPc, callResult, seen,
                   facVars, logVars, lateVars, bkVars, ttlVars, recVars,
                   regVars>>

\* get_channel is called on an idle client.
GetChannelBegin ==
    /\ callOp # "none"
    /\ callPc \in {"idle", "done"}
    /\ callOp' = "get_channel"
    /\ callPc' = "wait"
    /\ callResult' = <<>>
    /\ UNCHANGED <<changes, changesLeft, ready, ready_index, seen, facVars,
                   logVars, lateVars, bkVars, ttlVars, recVars, regVars>>

\* One poll of a poll_fn(|cx| balancer.poll_ready(cx)) at position at;
\* Poll::Ready(Ok) moves on to position next.
PollFn(at, next) ==
    /\ callOp = "get_channel"
    /\ callPc = at
    /\ ready' = UpdateFromDiscover(ready, changes)
    /\ changes' = <<>>
    /\ seen' = (seen \/ \E k \in 1..Len(changes) : changes[k].op = "Insert")
    /\ ready_index' \in PollReadyIndex(ready', ready_index)
    /\ callPc' = IF PollOutcome(ready_index') = "Ready" THEN next ELSE at
    /\ UNCHANGED <<changesLeft, callOp, callResult, facVars, logVars,
                   lateVars, bkVars,
                   ttlVars, recVars, regVars>>

\* get_channel: the poll_fn of the first pass of the attempt loop; Ok
\* breaks out of the loop (the Err arm is never taken: the stream's error
\* type is Infallible and ChannelService::poll_ready returns Ok).
GetChannelWait == PollFn("wait", "confirm")

\* get_channel: the poll_fn after the loop.
GetChannelConfirm == PollFn("confirm", "call")

\* get_channel: balancer.call(()).await, and the return.
GetChannelCall ==
    /\ callOp = "get_channel"
    /\ callPc = "call"
    /\ callResult' = BalanceCall(ready, ready_index).result
    /\ ready' = BalanceCall(ready, ready_index).services
    /\ ready_index' = 0
    /\ callPc' = "done"
    /\ UNCHANGED <<changes, changesLeft, callOp, seen, facVars, logVars,
                   lateVars,
                   bkVars, ttlVars, recVars, regVars>>

\* call_service(req) on an idle client: balancer.call(()).await with no
\* poll_ready before it.
CallService ==
    /\ callOp # "none"
    /\ callPc \in {"idle", "done"}
    /\ callOp' = "call_service"
    /\ callResult' = BalanceCall(ready, ready_index).result
    /\ ready' = BalanceCall(ready, ready_index).services
    /\ ready_index' = 0
    /\ callPc' = "done"
    /\ UNCHANGED <<changes, changesLeft, seen, facVars, logVars, lateVars,
                   bkVars,
                   ttlVars, recVars, regVars>>

\* ServiceClient::new(discover): a balancer with no service; the stream
\* may already hold Changes of from_backend's pass.
CliInit ==
    /\ changes \in {<<>>} \cup {<<ev>> : ev \in ChangeEvents}
    /\ changesLeft = MaxChanges - Len(changes)
    /\ ready = <<>>
    /\ ready_index = 0
    /\ callOp = "new"
    /\ callPc = "idle"
    /\ callResult = <<>>
    /\ seen = FALSE
    /\ FacNone
    /\ LogNone
    /\ LateNone
    /\ BkNone
    /\ TtlNone
    /\ RecNone
    /\ RegNone

CliNext ==
    \/ \E ev \in ChangeEvents : UpdaterSend(ev)
    \/ GetChannelBegin
    \/ GetChannelWait
    \/ GetChannelConfirm
    \/ GetChannelCall
    \/ CallService

SpecClient == CliInit /\ [][CliNext]_vars

\* The task awaiting get_channel is polled when the stream wakes it, and
\* runs on while its polls are ready.
FairClient ==
    /\ SpecClient
    /\ WF_vars(GetChannelWait) /\ WF_vars(GetChannelConfirm)
    /\ WF_vars(GetChannelCall)

(***************************************************************************)
(* Properties of the ServiceClient.                                        *)
(***************************************************************************)
\* A get_channel call has not returned yet.
InProgress == callOp = "get_channel" /\ callPc # "done"

\* The ready set once the Changes the stream holds are applied.
ReadyAfterUpdate == UpdateFromDiscover(ready, changes)

\* C24 as stated: once an Insert has been delivered to the client, a
\* get_channel call in progress eventually returns a channel.
C24_InsertThenReturns ==
    (InProgress /\ seen) ~> (callPc = "done" /\ callResult[1] = "Ok")

\* C24: get_channel returns a channel only of a service in the ready set;
\* it returns neither Ok nor an error while no Insert has reached the
\* client; and a call in progress eventually returns unless the Changes
\* delivered leave the ready set empty (an Insert followed by the Remove
\* of its key leaves the call waiting).
C24_ReadyThenReturns ==
    /\ []((callOp = "get_channel" /\ callPc = "done") => callResult[1] = "Ok")
    /\ []((callOp = "get_channel" /\ ~seen) => callPc # "done")
    /\ [][(InProgress /\ callPc' = "done") =>
            \E k \in 1..Len(ready) : ready[k].svc = callResult'[2]]_vars
    /\ InProgress ~> (callPc = "done" \/ ReadyAfterUpdate = <<>>)

\* get_channel has returned the channel of one of two ready services, and
\* it had to wait for it: the stream held no Change when the client was
\* built.
C24_Witness ==
    /\ callOp = "get_channel"
    /\ callPc = "done"
    /\ callResult[1] = "Ok"
    /\ Len(ready) = 2
    /\ changesLeft = MaxChanges - 2

\* C25: call_service on a client whose readiness was not established
\* handles readiness itself: when it has returned, it has returned the
\* selected channel; it never panics or fails.
C25_CallServiceWaits ==
    (callOp = "call_service" /\ callPc = "done") => callResult[1] = "Ok"

(***************************************************************************)
(* DiscoveryFactory::register_and_discover (factory.rs), call by call.     *)
(***************************************************************************)
\* Backend calls made by the call and by the tasks it spawned.
MaxFacCalls == 4

\* A call made on the way, with its result.
Called(name, res) == [call |-> name, res |-> res]

\* Faulty variant: every backend kind is given a configuration.
SupportsRegistrationAll(kind) == TRUE

\* The match on backend_type: Etcd and Consul get a backend_config, any
\* other kind is refused.
SupportsRegistration(kind) == kind \in {"etcd", "consul"}

\* Faulty variant: the result is not inspected.
TryIgnored(res) == "continue"

\* The `?` operator: an Err is returned to the caller.
Try(res) == IF res = "Err" THEN "return" ELSE "continue"

\* The results create_backend can give: EtcdBackend::new connects to the
\* endpoints, ConsulBackend::new only builds an HTTP client.
CreateBackendResults(kind) == IF kind = "etcd" THEN {"Ok", "Err"} ELSE {"Ok"}

\* The match on backend_type, first thing in the call.
FacMatch ==
    /\ facPc = "start"
    /\ IF SupportsRegistration(facKind)
         THEN facPc' = "create_backend" /\ facResult' = facResult
         ELSE facPc' = "returned" /\ facResult' = "Err"
    /\ UNCHANGED <<facKind, facInstance, facCalls, facSpawned, cliVars,
                   logVars, lateVars, bkVars, ttlVars, recVars, regVars>>

\* An awaited call at position at: made, and its result tried.
FacAwait(at, name, res, next) ==
    /\ facPc = at
    /\ facCalls' = Append(facCalls, Called(name, res))
    /\ IF Try(res) = "return"
         THEN facPc' = "returned" /\ facResult' = "Err"
         ELSE facPc' = next /\ facResult' = facResult
    /\ UNCHANGED <<facKind, facInstance, facSpawned, cliVars, logVars,
                   lateVars, bkVars,
                   ttlVars, recVars, regVars>>

\* Self::create_backend(&config).await?
FacCreateBackend ==
    \E res \in CreateBackendResults(facKind) :
      FacAwait("create_backend", "create_backend", res, "register")

\* backend.register(instance.clone()).await?
FacRegister ==
    \E res \in {"Ok", "Err"} :
      FacAwait("register", "register", res, "from_backend")

\* ServiceDiscover::from_backend(..).await?: the pass of from_backend
\* (whose discover error is skipped), then start_refresh_task spawns the
\* immediate and the periodic task and returns Ok.
FacFromBackend ==
    /\ facPc = "from_backend"
    /\ \E res \in {"Ok", "Err"} :
         facCalls' = Append(facCalls, Called("discover", res))
    /\ facSpawned' = facSpawned \cup {"immediate", "periodic"}
    /\ facPc' = "registry_new"
    /\ UNCHANGED <<facKind, facInstance, facResult, cliVars, logVars,
                   lateVars, bkVars,
                   ttlVars, recVars, regVars>>

\* ServiceRegistry::new spawns the heartbeat task; Ok((registry, discover,
\* updater)) is returned.
FacRegistryNew ==
    /\ facPc = "registry_new"
    /\ facSpawned' = facSpawned \cup {"heartbeat"}
    /\ facPc' = "returned"
    /\ facResult' = "Ok"
    /\ UNCHANGED <<facKind, facInstance, facCalls, cliVars, logVars,
                   lateVars, bkVars,
                   ttlVars, recVars, regVars>>

\* A spawned task makes a backend call: discover by the refresh tasks,
\* heartbeat by the heartbeat task.
FacTaskCall(t) ==
    /\ t \in facSpawned
    /\ Len(facCalls) < MaxFacCalls
    /\ \E res \in {"Ok", "Err"} :
         facCalls' = Append(facCalls,
                            Called(IF t = "heartbeat" THEN "heartbeat"
                                   ELSE "discover", res))
    /\ UNCHANGED <<facKind, facInstance, facPc, facResult, facSpawned,
                   cliVars, logVars, lateVars, bkVars, ttlVars, recVars,
                   regVars>>

\* register_and_discover(backend_type, .., instance) has been called.
FacInit ==
    /\ facKind \in BackendKinds
    /\ facInstance \in Instances
    /\ facPc = "start"
    /\ facResult = "none"
    /\ facCalls = <<>>
    /\ facSpawned = {}
    /\ CliNone
    /\ LogNone
    /\ LateNone
    /\ BkNone
    /\ TtlNone
    /\ RecNone
    /\ RegNone

FacNext ==
    \/ FacMatch
    \/ FacCreateBackend
    \/ FacRegister
    \/ FacFromBackend
    \/ FacRegistryNew
    \/ \E t \in {"immediate", "periodic", "heartbeat"} : FacTaskCall(t)

SpecFactory == FacInit /\ [][FacNext]_vars

(***************************************************************************)
(* Properties of register_and_discover.                                    *)
(***************************************************************************)
\* The initial backend.register of the call failed.
RegisterFailed ==
    \E k \in 1..Len(facCalls) : facCalls[k] = Called("register", "Err")

\* C26: if the initial backend.register fails, the error is returned to
\* the caller and no heartbeat task and no refresh task has been started
\* (the failed register is the last call made).
C26_RegisterFailureSurfaces ==
    RegisterFailed =>
      /\ facPc = "returned"
      /\ facResult = "Err"
      /\ facSpawned = {}
      /\ facCalls[Len(facCalls)] = Called("register", "Err")

\* The call has returned after its register failed.
C26_Witness == RegisterFailed /\ facPc = "returned"

\* C27: called with backend kind Dns or Mesh, register_and_discover
\* returns an error and has no effect: no backend is created, no register
\* call is made and no task is spawned.
C27_UnsupportedKindRejected ==
    facKind \in {"dns", "mesh"} =>
      /\ facCalls = <<>>
      /\ facSpawned = {}
      /\ facPc \in {"start", "returned"}
      /\ facPc = "returned" => facResult = "Err"

\* The call has returned for a DNS backend.
C27_Witness == facKind = "dns" /\ facPc = "returned"

(***************************************************************************)
(* Further properties of the registry and of the reconciler.               *)
(***************************************************************************)
\* C28: after update_instance(new) has returned Ok (the backend's record
\* is the registry's instance, which is not the one the registry was
\* constructed with), the record keeps the new payload: no step other than
\* a further update_instance or an unregister changes it, so no heartbeat
\* of the loop reverts it.
C28_UpdateKept ==
    [][(regInstance # hbInstance /\ regStore = regInstance
          /\ regInstance' = regInstance) =>
         regStore' \in {regInstance, NoInst}]_vars

(***************************************************************************)
(* The reconciler with an owner that may drop the ServiceDiscover, and     *)
(* with the log followed.                                                  *)
(***************************************************************************)
\* Backend changes the environment makes in the specifications below.
MaxEnvDrop == 2

InitDrop ==
    /\ backendStore = EmptyMap
    /\ dialable = Addrs
    /\ envLeft = MaxEnvDrop
    /\ RecInit
    /\ RegNone
    /\ BkNone
    /\ TtlNone
    /\ AuxNone

NextDrop ==
    \/ InitDiscover \/ InitVisit \/ InitSend \/ InitSpawn
    \/ ImmDiscover \/ ImmLock \/ ImmVisit \/ ImmSend \/ ImmDone
    \/ PerDiscoverOk \/ (PerDiscoverErr /\ warned' = TRUE) \/ PerLock
    \/ PerVisit \/ PerSendRm
    \/ PerRedial \/ PerSendIns \/ PerScan \/ PerDelete \/ PerSendDel
    \/ PerRelease
    \/ PollNext
    \/ DropDiscover
    \/ \E i \in Ids, c \in Contents : EnvRegister(i, c)
    \/ \E i \in Ids : EnvUnregister(i)
    \/ \E a \in Addrs : EnvDial(a)

SpecDrop == InitDrop /\ [][NextDrop]_vars

\* The runtime keeps scheduling the spawned tasks and the ticker keeps
\* firing, whether or not the ServiceDiscover is still held.
FairDrop == InitDrop /\ [][NextDrop]_vars /\ WF_vars(Progress)

\* C29: once the owner has dropped the ServiceDiscover, the periodic
\* refresh task eventually stops: from some point on no step of it is a
\* backend.discover call.
C29_StopsAfterDrop ==
    []rxAlive \/ <>[][~PerDiscoverOk /\ ~PerDiscoverErr]_vars

\* C30: a step of the periodic task in which backend.discover fails leaves
\* the last-known map and the channel cache as they were, emits no Insert
\* and no Remove (nothing is appended to the emitted changes, nothing is
\* pending or queued that was not), and leaves the task at its tick; and at
\* its tick after a logged failure the task's next discover is enabled.
C30_FailureSkipsPass ==
    /\ [][PerDiscoverErr =>
            /\ UNCHANGED <<instances, channel_cache, emitted, pend, queue>>
            /\ pc'["per"] = "tick"]_vars
    /\ []((warned /\ pc["per"] = "tick") => ENABLED PerDiscoverOk)

\* A discover of the periodic task has failed while a last-known instance
\* with a cached channel was held, and the task is back at its tick.
C30_Witness ==
    /\ warned
    /\ pc["per"] = "tick"
    /\ \E i \in Ids : instances[i] # NoInst /\ channel_cache[i] # NoChan

(***************************************************************************)
(* Further properties of the registry's heartbeat task.                    *)
(***************************************************************************)
\* C31: in the select loop, when the stop signal is ready (a message is
\* queued, or the channel is closed) the task does not take the tick branch:
\* no step leads from such a state to a heartbeat call.
C31_StopWinsOverTick ==
    [][(hbPc = "select" /\ (sdChan > 0 \/ ~txAlive)) =>
         hbPc' # "beating"]_vars

(***************************************************************************)
(* Further properties of the reconciler.                                   *)
(***************************************************************************)
\* C32: no pass holds the write lock on the last-known map while it waits
\* on a send the full event channel cannot take (so a reader of the map is
\* never kept waiting by a consumer that does not poll).
C32_NoLockAcrossSend ==
    lock # "free" => ~(rxAlive /\ pend # <<>> /\ Len(queue) = Buffer)

(***************************************************************************)
(* One reconcile pass over a discover result that repeats an instance_id   *)
(* (EtcdBackend::discover with namespace None appends the records of the   *)
(* namespaces it scans one after the other).                               *)
(***************************************************************************)
\* The longest discover result followed.
MaxFound == 3

\* One ServiceInstance of a discover result.
Occurrences == [id : Ids, c : Contents]

\* The discover results: Vec<ServiceInstance>, non-empty.
FoundLists == UNION {[1..n -> Occurrences] : n \in 1..MaxFound}

\* The places of instance_id i in a discover result.
PlacesOf(found, i) == {k \in 1..Len(found) : found[k].id = i}

FirstPlace(found, i) ==
    CHOOSE k \in PlacesOf(found, i) : \A j \in PlacesOf(found, i) : k <= j

LastPlace(found, i) ==
    CHOOSE k \in PlacesOf(found, i) : \A j \in PlacesOf(found, i) : k >= j

\* new_instances.into_iter().map(|inst| (inst.instance_id.clone(), inst))
\* .collect::<HashMap<_, _>>(): a later pair replaces an earlier one with
\* the same key.
Collect(found) ==
    [i \in Ids |-> IF PlacesOf(found, i) = {} THEN NoInst
                   ELSE found[LastPlace(found, i)].c]

\* The Inserts sent for instance_id i.
InsertsOf(sent, i) ==
    {k \in 1..Len(sent) : sent[k].op = "Insert" /\ sent[k].id = i}

DupRest ==
    <<recVars, regVars, bkVars, ttlVars, cliVars, facVars, logVars, manyVars,
      watchVars, rtVars>>

\* A pass has received its discover result; the last-known map and the
\* channel cache are empty (first pass after construction).  kind tells
\* from_backend's own loop from the passes of the spawned tasks.
DupInit ==
    /\ dupPass \in [kind : {"init", "spawned"},
                    found : FoundLists,
                    dial : SUBSET Addrs,
                    pc : {"start"},
                    pos : {1},
                    new_map : {EmptyMap},
                    todo : {{}},
                    current : {EmptyMap},
                    cache : {[i \in Ids |-> NoChan]},
                    sent : {<<>>}]
    /\ RecNone
    /\ RegNone
    /\ BkNone
    /\ TtlNone
    /\ CliNone
    /\ FacNone
    /\ LogNone
    /\ ManyNone
    /\ WatchNone
    /\ RtNone

\* What create_channel_service, insert and the map write leave for one
\* instance: alwaysRecord is FALSE where current.insert is inside the
\* `if let Ok(service)` (from_backend) and TRUE where it follows it (the
\* spawned passes).
DupApply(d, i, c, alwaysRecord) ==
    LET res == CreateChannelService(d.cache, i, c, d.dial)
    IN IF DialOk(res)
         THEN [d EXCEPT !.cache = UpdaterInsertCache(res.cache, i, res.ch),
                        !.sent = Append(@, Insert(i, res.ch)),
                        !.current = [@ EXCEPT ![i] = c]]
         ELSE IF alwaysRecord
           THEN [d EXCEPT !.current = [@ EXCEPT ![i] = c]]
           ELSE d

\* from_backend: `for new_inst in new_instances` starts.
DupInitStart ==
    /\ dupPass.kind = "init"
    /\ dupPass.pc = "start"
    /\ dupPass' = [dupPass EXCEPT !.pc = "loop"]
    /\ UNCHANGED DupRest

\* from_backend: one iteration of `for new_inst in new_instances`.
DupInitVisit ==
    /\ dupPass.pc = "loop"
    /\ LET o == dupPass.found[dupPass.pos]
           d == DupApply(dupPass, o.id, o.c, FALSE)
       IN dupPass' = [d EXCEPT !.pos = @ + 1,
                               !.pc = IF dupPass.pos = Len(dupPass.found)
                                        THEN "done" ELSE "loop"]
    /\ UNCHANGED DupRest

\* A spawned pass: the result is collected into new_map.
DupCollect ==
    /\ dupPass.kind = "spawned"
    /\ dupPass.pc = "start"
    /\ dupPass' = [dupPass EXCEPT !.new_map = Collect(dupPass.found),
                                  !.todo = Keys(Collect(dupPass.found)),
                                  !.pc = "visit"]
    /\ UNCHANGED DupRest

\* A spawned pass: one iteration of `for (id, new_inst) in &new_map`, the
\* id not being in current (the !contains_key / None arm).
DupSpawnedVisit ==
    /\ dupPass.pc = "visit"
    /\ \E i \in dupPass.todo :
         LET d == DupApply(dupPass, i, dupPass.new_map[i], TRUE)
         IN dupPass' = [d EXCEPT !.todo = @ \ {i},
                                 !.pc = IF dupPass.todo = {i}
                                          THEN "done" ELSE "visit"]
    /\ UNCHANGED DupRest

DupNext ==
    \/ DupInitStart
    \/ DupInitVisit
    \/ DupCollect
    \/ DupSpawnedVisit

SpecDup == DupInit /\ [][DupNext]_vars

\* C33: once the pass is over, every instance_id of the result whose first
\* record could be dialled has the first record in the last-known map, the
\* first record's channel in the cache, and exactly one Insert sent.
C33_FirstOccurrenceWins ==
    dupPass.pc = "done" =>
      \A i \in Ids :
        (/\ PlacesOf(dupPass.found, i) # {}
         /\ AddrOf(dupPass.found[FirstPlace(dupPass.found, i)].c)
              \in dupPass.dial) =>
          LET first == dupPass.found[FirstPlace(dupPass.found, i)]
          IN /\ dupPass.current[i] = first.c
             /\ dupPass.cache[i] = AddrOf(first.c)
             /\ Cardinality(InsertsOf(dupPass.sent, i)) = 1

(***************************************************************************)
(* from_backend over a discover result of any length.  The instances have  *)
(* distinct ids, so only their number matters: the event channel is        *)
(* followed by its length.  The Receiver is a field of the ServiceDiscover *)
(* that from_backend holds in a local until it returns.                    *)
(***************************************************************************)
\* The most instances one discover returns.
MaxMany == 18

ManyRest ==
    <<recVars, regVars, bkVars, ttlVars, cliVars, facVars, logVars, dupVars,
      watchVars, rtVars>>

\* from_backend has created the channel (mpsc::channel(16)) and received
\* the result of its discover: found instances (an Err result is found = 0,
\* the loop is skipped either way).
ManyInit ==
    /\ manyPass \in [found : 0..MaxMany,
                     pos : {0},
                     queued : {0},
                     polled : {0},
                     pc : {"loop"}]
    /\ RecNone
    /\ RegNone
    /\ BkNone
    /\ TtlNone
    /\ CliNone
    /\ FacNone
    /\ LogNone
    /\ DupNone
    /\ WatchNone
    /\ RtNone

\* One iteration of `for new_inst in new_instances` up to the send: the
\* dial fails (the instance is skipped) or succeeds (updater.insert writes
\* the cache and issues tx.send(Change::Insert(..)).await).
ManyVisit ==
    /\ manyPass.pc = "loop"
    /\ manyPass.pos < manyPass.found
    /\ \E ok \in BOOLEAN :
         manyPass' = [manyPass EXCEPT !.pos = @ + 1,
                                      !.pc = IF ok THEN "send" ELSE "loop"]
    /\ UNCHANGED ManyRest

\* tx.send(..).await completes: the channel has room.  The receiver is
\* alive (it is owned by from_backend's local `discover`), so the send
\* neither fails nor completes while Buffer changes are queued.
ManySend ==
    /\ manyPass.pc = "send"
    /\ manyPass.queued < Buffer
    /\ manyPass' = [manyPass EXCEPT !.queued = @ + 1, !.pc = "loop"]
    /\ UNCHANGED ManyRest

\* The loop is over: start_refresh_task spawns the two tasks and
\* from_backend returns Ok((discover, updater)).
ManyReturn ==
    /\ manyPass.pc = "loop"
    /\ manyPass.pos = manyPass.found
    /\ manyPass' = [manyPass EXCEPT !.pc = "returned"]
    /\ UNCHANGED ManyRest

\* The caller polls the stream it was handed: only after the return.
ManyPoll ==
    /\ manyPass.pc = "returned"
    /\ manyPass.queued > 0
    /\ manyPass' = [manyPass EXCEPT !.queued = @ - 1, !.polled = @ + 1]
    /\ UNCHANGED ManyRest

ManyNext ==
    \/ ManyVisit
    \/ ManySend
    \/ ManyReturn
    \/ ManyPoll

SpecMany == ManyInit /\ [][ManyNext]_vars

\* The task running from_backend is scheduled whenever it can take a step.
FairMany == ManyInit /\ [][ManyNext]_vars /\ WF_vars(ManyNext)

\* C34: from_backend returns its handles whatever the number of instances
\* its discover found.
C34_FromBackendReturns == <>(manyPass.pc = "returned")

(***************************************************************************)
(* The reconciler's three views of the live instances.                     *)
(***************************************************************************)
\* The ids the channel cache holds a ChannelService for.
Cached == {i \in Ids : channel_cache[i] # NoChan}

\* The ids whose latest emitted Change is an Insert.
Announced == {i \in Ids : \E a \in Addrs : Live(i, a)}

\* C35: when a spawned pass completes (it gives the write lock on the
\* last-known map back), the ids of the last-known map are the ids of the
\* channel cache and the ids whose latest emitted event is an Insert.
C35_KeySetsAgree ==
    [][(lock # "free" /\ lock' = "free") =>
         /\ Keys(instances') = Cached'
         /\ Cached' = Announced']_vars

(***************************************************************************)
(* The lease-KV backend shared by the registries of several service types. *)
(***************************************************************************)
\* Backend calls followed.
MaxUnregOps == 3

\* The instances the registries of the two service types register.
TypedInstances ==
    {Instance(st, id, "10.0.0.1:8080", ns, NoVersion, {}) :
       st \in ServiceTypes, id \in InstanceIds,
       ns \in Namespaces \cup {NoNamespace}}

\* The key register writes the record of inst under.
KeyOf(inst) ==
    ServiceKey(inst.service_type, inst.instance_id,
               IF inst.namespace # NoNamespace THEN inst.namespace
               ELSE "flare")

\* An EtcdBackend over an empty store.
UnregInit ==
    /\ backendKind = "etcd"
    /\ kv = EmptyStore
    /\ agent = EmptyStore
    /\ addresses = <<>>
    /\ opsLeft = MaxUnregOps
    /\ lastOp = NoOp
    /\ RecNone
    /\ RegNone
    /\ TtlNone
    /\ AuxNone

\* ServiceRegistry::shutdown of the registry of inst:
\* self.backend.unregister(&self.instance.instance_id); the registry exists
\* because inst was registered.
RegistryUnregister(inst) ==
    /\ KeyOf(inst) \in DOMAIN kv
    /\ kv[KeyOf(inst)] = inst
    /\ BkUnregister(inst.instance_id)

UnregNext ==
    \/ \E inst \in TypedInstances : BkRegister(inst)
    \/ \E inst \in TypedInstances : RegistryUnregister(inst)

SpecUnreg == UnregInit /\ [][UnregNext]_vars

\* C36: the unregister of the registry of instance I leaves every record
\* but I's own as it was (so it deletes at most one record, and never the
\* record of another service type or namespace with the same instance_id).
C36_UnregisterOwnRecordOnly ==
    [][\A inst \in TypedInstances :
         RegistryUnregister(inst) =>
           \A key \in DOMAIN kv \ {KeyOf(inst)} :
             key \in DOMAIN kv' /\ kv'[key] = kv[key]]_vars

(***************************************************************************)
(* Further properties of ServiceRegistry::shutdown and Drop.               *)
(***************************************************************************)
\* C37: over the shutdown() calls of one ServiceRegistry and its drop,
\* backend.unregister is called once at most.
C37_UnregisterAtMostOnce == unregCalls <= 1

\* shutdown() was called twice and returned, the registry was dropped, and
\* unregister was called.
C37_Witness ==
    /\ shCalls >= 2
    /\ shPc = "idle"
    /\ dropPc = "dropped"
    /\ unregCalls = 1

(***************************************************************************)
(* EtcdBackend: the client behind Arc<Mutex<Client>>, the task spawned by  *)
(* watch and one caller issuing discover / register / unregister /         *)
(* heartbeat calls, each of which starts with self.client.lock().await.    *)
(***************************************************************************)
\* Calls the caller issues.
MaxWatchOps == 2
\* Watch responses the etcd server sends.
MaxWatchEvents == 3

\* ServiceRegistry's heartbeat is backend.register(instance.clone()).
EtcdOps == {"discover", "register", "unregister", "heartbeat"}

WatchRest ==
    <<recVars, regVars, bkVars, ttlVars, cliVars, facVars, logVars, dupVars,
      manyVars, rtVars>>

\* EtcdBackend::new has returned: nobody holds the mutex, nobody waits.
WatchInit ==
    /\ etcdClient = [mutex |-> "free", waiters |-> <<>>, watchPc |-> "idle",
                     opPc |-> "idle", op |-> "none", afterWatch |-> FALSE,
                     opsDone |-> 0, events |-> 0]
    /\ RecNone
    /\ RegNone
    /\ BkNone
    /\ TtlNone
    /\ CliNone
    /\ FacNone
    /\ LogNone
    /\ DupNone
    /\ ManyNone
    /\ RtNone

\* tokio::sync::Mutex hands the lock to its waiters in the order they
\* asked: who may take it now.
NextHolder(c) ==
    IF c.mutex = "free" /\ c.waiters # <<>> THEN Head(c.waiters) ELSE "none"

\* watch(service_type): the task is spawned and Ok(rx) returned.
WatchCall ==
    /\ etcdClient.watchPc = "idle"
    /\ etcdClient' = [etcdClient EXCEPT !.watchPc = "spawned"]
    /\ UNCHANGED WatchRest

\* The task reaches `let mut client = client.lock().await;`.
WatchAsk ==
    /\ etcdClient.watchPc = "spawned"
    /\ etcdClient' = [etcdClient EXCEPT !.watchPc = "waiting",
                                        !.waiters = Append(@, "watch")]
    /\ UNCHANGED WatchRest

\* The task acquires the mutex and client.watch(..) returns the stream.
\* The guard lives to the end of the task's block.
WatchLock ==
    /\ etcdClient.watchPc = "waiting"
    /\ NextHolder(etcdClient) = "watch"
    /\ etcdClient' = [etcdClient EXCEPT !.mutex = "watch",
                                        !.waiters = Tail(@),
                                        !.watchPc = "streaming"]
    /\ UNCHANGED WatchRest

\* stream.message().await yields a response; its events are sent to tx and
\* the loop waits for the next one, the guard still held.
WatchMessage ==
    /\ etcdClient.watchPc = "streaming"
    /\ etcdClient.events < MaxWatchEvents
    /\ etcdClient' = [etcdClient EXCEPT !.events = @ + 1]
    /\ UNCHANGED WatchRest

\* stream.message().await yields Err or Ok(None) (the server closed the
\* watch, the connection broke): the loop and the task end, the guard is
\* dropped.
WatchEnd ==
    /\ etcdClient.watchPc = "streaming"
    /\ etcdClient' = [etcdClient EXCEPT !.mutex = "free", !.watchPc = "ended"]
    /\ UNCHANGED WatchRest

\* A discover, register, unregister or heartbeat is issued: it waits on
\* self.client.lock().await.
OpIssue(o) ==
    /\ etcdClient.opPc \in {"idle", "done"}
    /\ etcdClient.opsDone < MaxWatchOps
    /\ etcdClient' = [etcdClient EXCEPT !.opPc = "waiting", !.op = o,
                        !.afterWatch = (etcdClient.watchPc # "idle"),
                        !.waiters = Append(@, "op")]
    /\ UNCHANGED WatchRest

\* The call acquires the mutex.
OpLock ==
    /\ etcdClient.opPc = "waiting"
    /\ NextHolder(etcdClient) = "op"
    /\ etcdClient' = [etcdClient EXCEPT !.mutex = "op", !.waiters = Tail(@),
                                        !.opPc = "holding"]
    /\ UNCHANGED WatchRest

\* Its requests are answered; the call returns and its guard is dropped.
OpComplete ==
    /\ etcdClient.opPc = "holding"
    /\ etcdClient' = [etcdClient EXCEPT !.mutex = "free", !.opPc = "done",
                                        !.opsDone = @ + 1]
    /\ UNCHANGED WatchRest

WatchNext ==
    \/ WatchCall
    \/ WatchAsk
    \/ WatchLock
    \/ WatchMessage
    \/ WatchEnd
    \/ \E o \in EtcdOps : OpIssue(o)
    \/ OpLock
    \/ OpComplete

SpecWatch == WatchInit /\ [][WatchNext]_vars

\* The runtime schedules the spawned task and the caller, the mutex is
\* handed to its first waiter once it is free, and the etcd server answers
\* the requests of a call.  Whether and when the server sends a watch
\* response or ends the watch is up to the server.
FairWatch ==
    /\ WatchInit /\ [][WatchNext]_vars
    /\ WF_vars(WatchAsk) /\ WF_vars(WatchLock)
    /\ WF_vars(OpLock) /\ WF_vars(OpComplete)

\* C38: a call issued once watch has been started acquires the client mutex
\* and completes.
C38_WatchDoesNotBlock ==
    (etcdClient.opPc = "waiting" /\ etcdClient.afterWatch)
      ~> etcdClient.opPc = "done"

(***************************************************************************)
(* ServiceRuntime (runtime/runtime.rs): start_tasks, topological_sort and  *)
(* run_with_registration.  A task is known by its name; the tasks are      *)
(* registered in the order of TaskOrder.                                   *)
(***************************************************************************)
\* The longest Vec a Task::dependencies returns.
MaxDeps == 2

\* Task::name of the tasks; a dependency may name any of them, registered
\* or not.
TaskNames == {"a", "b", "c"}
TaskOrder == <<"a", "b", "c">>

\* What Task::dependencies may return.
DepLists(m) == UNION {[1..k -> TaskNames] : k \in 0..m}

\* The elements of a sequence.
Range(q) == {q[k] : k \in 1..Len(q)}

\* The orders a HashMap may iterate the names of S in.
Orders(S) ==
    {q \in [1..Cardinality(S) -> S] :
       \A i, j \in 1..Cardinality(S) : q[i] = q[j] => i = j}

\* A ServiceRuntime with its first n tasks added, whose dependencies are
\* deps, before run is called.
RtBuilt(n, deps) ==
    [names |-> SubSeq(TaskOrder, 1, n), deps |-> deps, pc |-> "start",
     in_degree |-> [t \in TaskNames |-> 0],
     dependents |-> [t \in TaskNames |-> <<>>],
     queue |-> <<>>, processed |-> {}, sorted |-> <<>>, started |-> <<>>,
     registered |-> "none", sdSent |-> FALSE, signalled |-> {},
     finished |-> {}, aborted |-> FALSE, result |-> "none"]

\* The runtimes whose tasks return at most m dependencies each.
Runtimes(m) ==
    {RtBuilt(n, deps) :
       n \in 1..Len(TaskOrder),
       deps \in [TaskNames -> DepLists(m)]}

RtRest ==
    <<recVars, regVars, bkVars, ttlVars, cliVars, facVars, logVars, dupVars,
      manyVars, watchVars>>

RtOthersNone ==
    /\ RecNone
    /\ RegNone
    /\ BkNone
    /\ TtlNone
    /\ CliNone
    /\ FacNone
    /\ LogNone
    /\ DupNone
    /\ ManyNone
    /\ WatchNone

\* run / run_with_registration has taken self.tasks and calls start_tasks.
\* Only the dependencies of the added tasks are ever read.
SortInit ==
    /\ rt \in {r \in Runtimes(MaxDeps) :
                 \A t \in TaskNames \ Range(r.names) : r.deps[t] = <<>>}
    /\ RtOthersNone

\* topological_sort, `for name in &task_names { .. for dep in &deps`: the
\* names dependents[d] ends up with, one per occurrence of d in a
\* dependency list, in the order of the two loops.
Dependents(names, deps, d) ==
    Flatten([k \in 1..Len(names) |->
               [j \in 1..Len(SelectSeq(deps[names[k]], LAMBDA x : x = d))
                  |-> names[k]]])

\* Faulty variant: every task starts in the queue.
ZeroDegreeAll(names, deg) == Range(names)

\* `for (name, degree) in &in_degree { if *degree == 0`
ZeroDegree(names, deg) == {t \in Range(names) : deg[t] = 0}

\* `for dependent in deps { *degree -= 1; if *degree == 0 { push_back`:
\* the in-degrees and the queue after the dependents ds of a processed
\* task are visited.
RECURSIVE Release(_, _, _)
Release(deg, q, ds) ==
    IF ds = <<>> THEN [deg |-> deg, q |-> q]
    ELSE LET d == Head(ds)
             deg2 == [deg EXCEPT ![d] = @ - 1]
         IN Release(deg2, IF deg2[d] = 0 THEN Append(q, d) ELSE q, Tail(ds))

\* topological_sort up to the Kahn loop: a dependency that is not in
\* task_map returns the error; otherwise in_degree and dependents are
\* built.
RtBuild ==
    /\ rt.pc = "start"
    /\ IF \E t \in Range(rt.names) : ~(Range(rt.deps[t]) \subseteq
                                         Range(rt.names))
         THEN rt' = [rt EXCEPT !.pc = "returned", !.result = "SortErr"]
         ELSE rt' = [rt EXCEPT
                !.pc = "queue",
                !.in_degree = [t \in TaskNames |-> Len(rt.deps[t])],
                !.dependents = [t \in TaskNames |->
                                  Dependents(rt.names, rt.deps, t)]]
    /\ UNCHANGED RtRest

\* The queue is filled with the tasks of in-degree 0, in the order the
\* HashMap iterates.
RtQueue ==
    /\ rt.pc = "queue"
    /\ \E q \in Orders(ZeroDegree(rt.names, rt.in_degree)) :
         rt' = [rt EXCEPT !.queue = q, !.pc = "kahn"]
    /\ UNCHANGED RtRest

\* One pass of `while let Some(current) = queue.pop_front()`.
RtPop ==
    /\ rt.pc = "kahn"
    /\ rt.queue # <<>>
    /\ LET current == Head(rt.queue)
           after == Release(rt.in_degree, Tail(rt.queue),
                            rt.dependents[current])
       IN IF current \in rt.processed
            THEN rt' = [rt EXCEPT !.queue = Tail(@)]
            ELSE rt' = [rt EXCEPT !.processed = @ \cup {current},
                                  !.sorted = Append(@, current),
                                  !.in_degree = after.deg,
                                  !.queue = after.q]
    /\ UNCHANGED RtRest

\* The queue is empty: `if sorted.len() != task_names.len()` returns the
\* circular-dependency error, which start_tasks and run pass on with `?`;
\* otherwise start_tasks goes on to its spawn loop.
RtSorted ==
    /\ rt.pc = "kahn"
    /\ rt.queue = <<>>
    /\ IF Len(rt.sorted) # Len(rt.names)
         THEN rt' = [rt EXCEPT !.pc = "returned", !.result = "SortErr"]
         ELSE rt' = [rt EXCEPT !.pc = "spawn"]
    /\ UNCHANGED RtRest

\* start_tasks, one iteration of `for task in sorted_tasks`: the task's
\* shutdown channel is created and its future is spawned on the JoinSet;
\* after the last one start_tasks returns Ok((join_set, task_shutdowns)).
RtSpawn ==
    /\ rt.pc = "spawn"
    /\ LET k == Len(rt.started) + 1
       IN rt' = [rt EXCEPT !.started = Append(@, rt.sorted[k]),
                           !.pc = IF k = Len(rt.sorted) THEN "ready"
                                  ELSE "spawn"]
    /\ UNCHANGED RtRest

SortNext ==
    \/ RtBuild
    \/ RtQueue
    \/ RtPop
    \/ RtSorted
    \/ RtSpawn

SpecSort == SortInit /\ [][SortNext]_vars

\* The place of task t among the started tasks (0: not started).
StartedAt(t) ==
    IF t \in Range(rt.started)
      THEN CHOOSE k \in 1..Len(rt.started) : rt.started[k] = t
      ELSE 0

\* d is reached from t along declared dependencies of added tasks.
RECURSIVE DependsOn(_, _, _)
DependsOn(t, d, n) ==
    /\ n > 0
    /\ \E x \in Range(rt.deps[t]) :
         x = d \/ (x \in Range(rt.names) /\ DependsOn(x, d, n - 1))

\* The declared dependencies hold a cycle, or name a task not added.
BadDependencies ==
    \/ \E t \in Range(rt.names) : DependsOn(t, t, Len(rt.names))
    \/ \E t \in Range(rt.names) :
         ~(Range(rt.deps[t]) \subseteq Range(rt.names))

\* C39: every started task has each of its declared dependencies started
\* before it; with a cycle or an unregistered name among the dependencies
\* no task is ever started and start_tasks returns its error.
C39_DependencyOrder ==
    /\ \A t \in Range(rt.started) :
         \A d \in Range(rt.deps[t]) :
           StartedAt(d) > 0 /\ StartedAt(d) < StartedAt(t)
    /\ BadDependencies =>
         /\ rt.started = <<>>
         /\ rt.pc \in {"start", "queue", "kahn", "returned"}
         /\ rt.pc = "returned" => rt.result = "SortErr"

\* Three tasks have been started, one of them with two different
\* dependencies.
C39_Witness ==
    /\ Len(rt.started) = 3
    /\ \E t \in TaskNames : Cardinality(Range(rt.deps[t])) = 2

(***************************************************************************)
(* ServiceRuntime::run_with_registration after start_tasks.                *)
(***************************************************************************)
\* run_with_registration has taken self.tasks and calls start_tasks; each
\* task declares one dependency at most.
RunInit ==
    /\ rt \in {r \in Runtimes(1) :
                 \A t \in TaskNames \ Range(r.names) : r.deps[t] = <<>>}
    /\ RtOthersNone

\* The started tasks whose futures have not completed.
Running == Range(rt.started) \ rt.finished

\* self.wait_for_tasks_ready().await?: the checks pass, or one fails or
\* times out and the error is returned.
RtReady ==
    /\ rt.pc = "ready"
    /\ \E ok \in BOOLEAN :
         rt' = IF ok THEN [rt EXCEPT !.pc = "register"]
               ELSE [rt EXCEPT !.pc = "returned", !.result = "ReadyErr"]
    /\ UNCHANGED RtRest

\* register_fn(service_address).await returns Ok(Some(reg)), Ok(None) or
\* Err(e).
RtRegister ==
    /\ rt.pc = "register"
    /\ \E res \in {"Some", "None", "Err"} :
         rt' = [rt EXCEPT !.registered = res,
                          !.pc = IF res = "Err" THEN "reg_failed"
                                 ELSE "select"]
    /\ UNCHANGED RtRest

\* The Err arm: `if let Some(tx) = shutdown_tx_opt.take() { tx.send(()) }`
\* sends on the runtime's own channel, whose Receiver is the local
\* shutdown_rx; task_shutdowns is not touched.  Then
\* wait_for_tasks_shutdown is entered.
RtRegFailed ==
    /\ rt.pc = "reg_failed"
    /\ rt' = [rt EXCEPT !.sdSent = TRUE, !.pc = "wait_err"]
    /\ UNCHANGED RtRest

\* The select! returns: Ctrl+C was pressed.
RtSelect ==
    /\ rt.pc = "select"
    /\ rt' = [rt EXCEPT !.pc = "signal"]
    /\ UNCHANGED RtRest

\* The runtime's own channel is signalled and `for tx in task_shutdowns
\* { let _ = tx.send(()); }` signals every task whose Receiver still
\* exists; wait_for_tasks_shutdown is entered.
RtSignalAll ==
    /\ rt.pc = "signal"
    /\ rt' = [rt EXCEPT !.sdSent = TRUE, !.signalled = Running,
                        !.pc = "wait_ok"]
    /\ UNCHANGED RtRest

\* The future of a started task completes: the task was signalled, or it
\* returns of its own accord.
TaskExit(t) ==
    /\ t \in Running
    /\ ~rt.aborted
    /\ rt.pc # "returned"
    /\ rt' = [rt EXCEPT !.finished = @ \cup {t}]
    /\ UNCHANGED RtRest

\* What run_with_registration does once wait_for_tasks_shutdown is over.
AfterWait(r) ==
    IF r.pc = "wait_err"
      THEN [r EXCEPT !.pc = "returned", !.result = "RegErr"]
      ELSE [r EXCEPT !.pc = "returned", !.result = "Ok"]

\* wait_for_tasks_shutdown: join_next() has returned None, every task has
\* completed.
RtWaitDone ==
    /\ rt.pc \in {"wait_err", "wait_ok"}
    /\ Running = {}
    /\ rt' = AfterWait(rt)
    /\ UNCHANGED RtRest

\* wait_for_tasks_shutdown: config.shutdown_timeout has passed with tasks
\* still running; join_set.abort_all().
RtWaitTimeout ==
    /\ rt.pc \in {"wait_err", "wait_ok"}
    /\ Running # {}
    /\ rt' = AfterWait([rt EXCEPT !.aborted = TRUE])
    /\ UNCHANGED RtRest

RunNext ==
    \/ SortNext
    \/ RtReady
    \/ RtRegister
    \/ RtRegFailed
    \/ RtSelect
    \/ RtSignalAll
    \/ \E t \in TaskNames : TaskExit(t)
    \/ RtWaitDone
    \/ RtWaitTimeout

SpecRun == RunInit /\ [][RunNext]_vars

\* C40: when the registration function has returned an error and the
\* runtime waits for its tasks to finish, every started task that is still
\* running has been sent its shutdown signal.
C40_SignalBeforeWait ==
    (rt.registered = "Err" /\ rt.pc = "wait_err") =>
      Running \subseteq rt.signalled
====
